---- MODULE Spec2Model ----
(***************************************************************************)
(* Model of the workspace / session lifecycle and security-interception    *)
(* subsystem of the ChatGPT Browser (src/src).                             *)
(*                                                                         *)
(*   SpecNav   the navigation-interception chain: DomainAllowlistManager,  *)
(*             SecurityInterceptor, OAuthHandler, SecurePage and the popup *)
(*             handler installed by SecurePage.createWindow.               *)
(*   SpecTabs  the tab controller of the four WorkspaceWidgets built from  *)
(*             a loaded session.                                           *)
(*                                                                         *)
(* Text that the code inspects character by character (URLs, host names,   *)
(* reason texts) is a sequence of one-character strings, so that split,    *)
(* strip, lower, startswith, endswith and "in" are computed as Python      *)
(* computes them.                                                          *)
(***************************************************************************)
EXTENDS Integers, Sequences, FiniteSets, TLC

(***************************************************************************)
(* State                                                                   *)
(***************************************************************************)
VARIABLES
    allowlist_file,   \* the domains in domain_allowlist.json ({} when missing)
    pages,            \* the SecurePages created so far, in creation order
    allow_count,      \* Allow-Once / Always-Allow decisions taken so far
    workspaces,       \* MainWindow.workspaces: workspace id -> WorkspaceWidget
    tab_ops,          \* tab operations performed so far
    last_op,          \* the latest operation and its workspace
    window,           \* MainWindow: current workspace, dirty flags, notepads
    session_manager,  \* MainWindow.session_manager
    files,            \* sessions.json and the notepad files
    last_save,        \* history: the latest call of SessionManager.save_sessions
    memory_manager,   \* MainWindow.memory_manager
    clock,            \* time.time(), in seconds since the window was made
    usage             \* history: when each workspace was last switched to
                      \* and last switched away from

nav_vars ==
    <<allowlist_file, pages, allow_count>>

store_vars ==
    <<session_manager, files, last_save>>

memory_vars ==
    <<memory_manager, clock, usage>>

app_vars ==
    <<workspaces, tab_ops, last_op, window, store_vars, memory_vars>>

vars ==
    <<allowlist_file, pages, allow_count, workspaces, tab_ops, last_op,
      window, session_manager, files, last_save, memory_manager, clock, usage>>

(***************************************************************************)
(* Texts of the program, as sequences of characters                        *)
(***************************************************************************)
\* SecurityInterceptor.allowed_schemes
S_http ==
    <<"h", "t", "t", "p">>

S_https ==
    <<"h", "t", "t", "p", "s">>

S_about ==
    <<"a", "b", "o", "u", "t">>

\* Pieces of the reason texts built by should_block_url
R_Empty_URL ==
    <<"E", "m", "p", "t", "y", " ", "U", "R", "L">>

R_Scheme_open ==
    <<"S", "c", "h", "e", "m", "e", " ", "'">>

R_not_allowed_close ==
    <<"'", " ", "n", "o", "t", " ", "a", "l", "l", "o", "w", "e", "d">>

R_about_blank ==
    <<"a", "b", "o", "u", "t", ":", "b", "l", "a", "n", "k">>

R_Internal_pages ==
    <<"I", "n", "t", "e", "r", "n", "a", "l", " ", "p", "a", "g", "e", "s", " ", "b", "l", "o", "c", "k", "e", "d", " ", "f", "o", "r", " ", "s", "e", "c", "u", "r", "i", "t", "y">>

R_Domain_open ==
    <<"D", "o", "m", "a", "i", "n", " ", "'">>

R_not_in_allowlist_close ==
    <<"'", " ", "n", "o", "t", " ", "i", "n", " ", "a", "l", "l", "o", "w", "l", "i", "s", "t">>

R_Invalid_URL ==
    <<"I", "n", "v", "a", "l", "i", "d", " ", "U", "R", "L", " ", "f", "o", "r", "m", "a", "t", ":", " ", "I", "n", "v", "a", "l", "i", "d", " ", "I", "P", "v", "6", " ", "U", "R", "L">>

\* Terms acceptNavigationRequest looks for in the lowered reason
T_not_allowed ==
    <<"n", "o", "t", " ", "a", "l", "l", "o", "w", "e", "d">>

T_scheme ==
    <<"s", "c", "h", "e", "m", "e">>

T_internal_pages ==
    <<"i", "n", "t", "e", "r", "n", "a", "l", " ", "p", "a", "g", "e", "s">>

T_not_in_allowlist ==
    <<"n", "o", "t", " ", "i", "n", " ", "a", "l", "l", "o", "w", "l", "i", "s", "t">>

\* Query keywords of should_redirect_to_system_browser
K_oauth ==
    <<"o", "a", "u", "t", "h">>

K_response_type ==
    <<"r", "e", "s", "p", "o", "n", "s", "e", "_", "t", "y", "p", "e">>

\* The domains _ensure_default_domains keeps in every allowlist
default_domains ==
    {<<"c", "h", "a", "t", "g", "p", "t", ".", "c", "o", "m">>,
     <<"o", "p", "e", "n", "a", "i", ".", "c", "o", "m">>,
     <<"a", "u", "t", "h", "0", ".", "o", "p", "e", "n", "a", "i", ".", "c", "o", "m">>,
     <<"c", "d", "n", ".", "o", "p", "e", "n", "a", "i", ".", "c", "o", "m">>,
     <<"s", "t", "a", "t", "i", "c", ".", "o", "p", "e", "n", "a", "i", ".", "c", "o", "m">>,
     <<"a", "p", "i", ".", "o", "p", "e", "n", "a", "i", ".", "c", "o", "m">>,
     <<"a", "c", "c", "o", "u", "n", "t", "s", ".", "g", "o", "o", "g", "l", "e", ".", "c", "o", "m">>,
     <<"g", "o", "o", "g", "l", "e", "a", "p", "i", "s", ".", "c", "o", "m">>,
     <<"g", "s", "t", "a", "t", "i", "c", ".", "c", "o", "m">>,
     <<"f", "o", "n", "t", "s", ".", "g", "o", "o", "g", "l", "e", "a", "p", "i", "s", ".", "c", "o", "m">>,
     <<"f", "o", "n", "t", "s", ".", "g", "s", "t", "a", "t", "i", "c", ".", "c", "o", "m">>,
     <<"s", "e", "n", "t", "r", "y", ".", "i", "o">>,
     <<"c", "l", "o", "u", "d", "f", "l", "a", "r", "e", ".", "c", "o", "m">>,
     <<"a", "z", "u", "r", "e", "e", "d", "g", "e", ".", "n", "e", "t">>}

\* OAuthHandler.oauth_patterns
oauth_patterns ==
    {<<"a", "c", "c", "o", "u", "n", "t", "s", ".", "g", "o", "o", "g", "l", "e", ".", "c", "o", "m">>,
     <<"o", "a", "u", "t", "h", "2", ".", "g", "o", "o", "g", "l", "e", "a", "p", "i", "s", ".", "c", "o", "m">>,
     <<"a", "c", "c", "o", "u", "n", "t", "s", ".", "y", "o", "u", "t", "u", "b", "e", ".", "c", "o", "m">>,
     <<"m", "y", "a", "c", "c", "o", "u", "n", "t", ".", "g", "o", "o", "g", "l", "e", ".", "c", "o", "m", "/", "o", "a", "u", "t", "h">>,
     <<"o", "a", "u", "t", "h", ".", "g", "o", "o", "g", "l", "e", "u", "s", "e", "r", "c", "o", "n", "t", "e", "n", "t", ".", "c", "o", "m">>}

\* the path keywords of should_redirect_to_system_browser
oauth_path_keywords ==
    {<<"o", "a", "u", "t", "h">>,
     <<"a", "u", "t", "h">>,
     <<"s", "i", "g", "n", "i", "n">>,
     <<"l", "o", "g", "i", "n">>}

\* Navigation targets offered to the callbacks
U_chatgpt ==
    <<"h", "t", "t", "p", "s", ":", "/", "/", "c", "h", "a", "t", "g", "p", "t", ".", "c", "o", "m", "/">>

U_chat_chatgpt ==
    <<"h", "t", "t", "p", "s", ":", "/", "/", "c", "h", "a", "t", ".", "c", "h", "a", "t", "g", "p", "t", ".", "c", "o", "m", "/", "x">>

U_chatgpt_upper_port ==
    <<"H", "T", "T", "P", "S", ":", "/", "/", "C", "h", "a", "t", "G", "P", "T", ".", "c", "o", "m", ":", "4", "4", "3", "/">>

U_evil ==
    <<"h", "t", "t", "p", "s", ":", "/", "/", "e", "v", "i", "l", ".", "c", "o", "m", "/">>

U_sub_evil ==
    <<"h", "t", "t", "p", ":", "/", "/", "s", "u", "b", ".", "e", "v", "i", "l", ".", "c", "o", "m", ":", "8", "0", "8", "0", "/">>

U_notchatgpt ==
    <<"h", "t", "t", "p", "s", ":", "/", "/", "n", "o", "t", "c", "h", "a", "t", "g", "p", "t", ".", "c", "o", "m", "/">>

U_userinfo_spoof ==
    <<"h", "t", "t", "p", "s", ":", "/", "/", "c", "h", "a", "t", "g", "p", "t", ".", "c", "o", "m", ":", "x", "@", "e", "v", "i", "l", ".", "c", "o", "m", "/">>

U_userinfo_chatgpt ==
    <<"h", "t", "t", "p", "s", ":", "/", "/", "u", "@", "c", "h", "a", "t", "g", "p", "t", ".", "c", "o", "m", "/">>

U_scheme_io ==
    <<"h", "t", "t", "p", "s", ":", "/", "/", "s", "c", "h", "e", "m", "e", ".", "i", "o", "/">>

U_about_blank ==
    <<"a", "b", "o", "u", "t", ":", "b", "l", "a", "n", "k">>

U_about_blank_frag ==
    <<"a", "b", "o", "u", "t", ":", "b", "l", "a", "n", "k", "#", "x">>

U_about_config ==
    <<"a", "b", "o", "u", "t", ":", "c", "o", "n", "f", "i", "g">>

U_file ==
    <<"f", "i", "l", "e", ":", "/", "/", "/", "e", "t", "c", "/", "p", "a", "s", "s", "w", "d">>

U_javascript ==
    <<"j", "a", "v", "a", "s", "c", "r", "i", "p", "t", ":", "0">>

U_empty ==
    <<>>

U_hostless ==
    <<"h", "t", "t", "p", "s", ":", "/", "/", "/", "x">>

U_bad_bracket ==
    <<"h", "t", "t", "p", ":", "/", "/", "[", "b", "a", "d", "/">>

U_google_signin ==
    <<"h", "t", "t", "p", "s", ":", "/", "/", "a", "c", "c", "o", "u", "n", "t", "s", ".", "g", "o", "o", "g", "l", "e", ".", "c", "o", "m", "/", "s", "i", "g", "n", "i", "n">>

U_google_plain ==
    <<"h", "t", "t", "p", "s", ":", "/", "/", "a", "c", "c", "o", "u", "n", "t", "s", ".", "g", "o", "o", "g", "l", "e", ".", "c", "o", "m", "/", "x">>

\* Host names of navigation targets
H_evil_com ==
    <<"e", "v", "i", "l", ".", "c", "o", "m">>

H_sub_evil_com ==
    <<"s", "u", "b", ".", "e", "v", "i", "l", ".", "c", "o", "m">>

H_notchatgpt_com ==
    <<"n", "o", "t", "c", "h", "a", "t", "g", "p", "t", ".", "c", "o", "m">>

(***************************************************************************)
(* Python string operations on character sequences                         *)
(***************************************************************************)
UpperLetters ==
    <<"A", "B", "C", "D", "E", "F", "G", "H", "I", "J", "K", "L", "M",
      "N", "O", "P", "Q", "R", "S", "T", "U", "V", "W", "X", "Y", "Z">>

LowerLetters ==
    <<"a", "b", "c", "d", "e", "f", "g", "h", "i", "j", "k", "l", "m",
      "n", "o", "p", "q", "r", "s", "t", "u", "v", "w", "x", "y", "z">>

Digits ==
    {"0", "1", "2", "3", "4", "5", "6", "7", "8", "9"}

Whitespace ==
    {" "}

Range(s) ==
    {s[i] : i \in 1..Len(s)}

IsAlpha(c) ==
    c \in Range(UpperLetters) \cup Range(LowerLetters)

\* c.lower()
LowerChar(c) ==
    IF c \in Range(UpperLetters)
    THEN LowerLetters[CHOOSE i \in 1..Len(UpperLetters) : UpperLetters[i] = c]
    ELSE c

\* s.lower()
Lower(s) ==
    [i \in 1..Len(s) |-> LowerChar(s[i])]

\* s.find(c) + 1: the first position of character c in s, 0 when absent
Find(s, c) ==
    IF \E i \in 1..Len(s) : s[i] = c
    THEN CHOOSE i \in 1..Len(s) : s[i] = c /\ \A j \in 1..(i - 1) : s[j] # c
    ELSE 0

\* s.split(c, 1)[0] and s.split(c)[0]: the text before the first c
BeforeFirst(s, c) ==
    IF Find(s, c) = 0 THEN s ELSE SubSeq(s, 1, Find(s, c) - 1)

\* s[k:] for a 1-based first position k
From(s, k) ==
    SubSeq(s, k, Len(s))

\* s.startswith(t)
StartsWith(s, t) ==
    Len(t) <= Len(s) /\ SubSeq(s, 1, Len(t)) = t

\* s.endswith(t)
EndsWith(s, t) ==
    Len(t) <= Len(s) /\ SubSeq(s, Len(s) - Len(t) + 1, Len(s)) = t

\* t in s
Contains(s, t) ==
    \E i \in 1..(Len(s) - Len(t) + 1) : SubSeq(s, i, i + Len(t) - 1) = t

\* s.strip()
Strip(s) ==
    LET keep == {i \in 1..Len(s) : s[i] \notin Whitespace}
    IN  IF keep = {} THEN <<>>
        ELSE SubSeq(s, CHOOSE i \in keep : \A j \in keep : i <= j,
                       CHOOSE i \in keep : \A j \in keep : j <= i)

(***************************************************************************)
(* urllib.parse.urlparse, as far as the code reads its result              *)
(***************************************************************************)
SchemeChars ==
    Range(UpperLetters) \cup Range(LowerLetters) \cup Digits \cup {"+", "-", "."}

\* urlsplit: a leading "<scheme>:" is cut off when it is made of scheme characters
AfterScheme(url) ==
    LET i == Find(url, ":")
    IN  IF i > 1 /\ IsAlpha(url[1]) /\ \A j \in 1..(i - 1) : url[j] \in SchemeChars
        THEN From(url, i + 1)
        ELSE url

\* the first position in s of one of the characters cs, Len(s) + 1 when there is none
FirstOf(s, cs) ==
    IF \E i \in 1..Len(s) : s[i] \in cs
    THEN CHOOSE i \in 1..Len(s) : s[i] \in cs /\ \A j \in 1..(i - 1) : s[j] \notin cs
    ELSE Len(s) + 1

\* urlparse(url).netloc: the text between "//" and the next "/", "?" or "#"
Netloc(url) ==
    LET rest == AfterScheme(url)
    IN  IF StartsWith(rest, <<"/", "/">>)
        THEN SubSeq(rest, 3, FirstOf(From(rest, 3), {"/", "?", "#"}) + 1)
        ELSE <<>>

\* what urlsplit leaves after the netloc: path, query and fragment
AfterNetloc(url) ==
    LET rest == AfterScheme(url)
    IN  IF StartsWith(rest, <<"/", "/">>)
        THEN From(rest, FirstOf(From(rest, 3), {"/", "?", "#"}) + 2)
        ELSE rest

\* urlparse(url).path
PathOf(url) ==
    LET rest == AfterNetloc(url)
    IN  SubSeq(rest, 1, FirstOf(rest, {"?", "#"}) - 1)

\* urlparse(url).query
QueryOf(url) ==
    LET rest  == AfterNetloc(url)
        nofrag == SubSeq(rest, 1, FirstOf(rest, {"#"}) - 1)
    IN  IF Find(nofrag, "?") = 0 THEN <<>> ELSE From(nofrag, Find(nofrag, "?") + 1)

\* urlsplit raises ValueError("Invalid IPv6 URL") on an unbalanced bracket
UrlParseRaises(url) ==
    LET netloc == Netloc(url)
    IN  ("[" \in Range(netloc)) # ("]" \in Range(netloc))

\* Navigation targets offered to the callbacks
NavUrls ==
    {U_chatgpt, U_chat_chatgpt, U_chatgpt_upper_port, U_evil, U_sub_evil,
     U_notchatgpt, U_userinfo_spoof, U_userinfo_chatgpt, U_scheme_io,
     U_about_blank, U_about_blank_frag, U_about_config, U_file, U_javascript,
     U_empty, U_hostless, U_bad_bracket, U_google_signin, U_google_plain}

(***************************************************************************)
(* DomainAllowlistManager and SecurityInterceptor                          *)
(***************************************************************************)
allowed_schemes ==
    {S_http, S_https, S_about}

\* domain = parsed.netloc.lower(); if ':' in domain: domain = domain.split(':')[0]
DomainOf(url) ==
    BeforeFirst(Lower(Netloc(url)), ":")

\* should_block_url up to its urlparse call: the verdict that the URL text
\* alone decides (empty URL, scheme, internal page, unparseable), if any
UrlGate(url) ==
    LET scheme == Strip(Lower(BeforeFirst(url, ":")))
    IN  IF url = <<>>
        THEN [blocked |-> TRUE, reason |-> R_Empty_URL]
        ELSE IF Find(url, ":") # 0 /\ scheme \notin allowed_schemes
        THEN [blocked |-> TRUE,
              reason |-> R_Scheme_open \o scheme \o R_not_allowed_close]
        ELSE IF /\ Find(url, ":") # 0
                /\ scheme = S_about
                /\ ~StartsWith(Strip(Lower(url)), R_about_blank)
        THEN [blocked |-> TRUE, reason |-> R_Internal_pages]
        ELSE IF UrlParseRaises(url)
        THEN [blocked |-> TRUE, reason |-> R_Invalid_URL]
        ELSE [blocked |-> FALSE, reason |-> <<>>]

\* The readings of each navigation target, computed once
UrlGateOf ==
    [url \in NavUrls |-> UrlGate(url)]

DomainOfUrl ==
    [url \in NavUrls |-> DomainOf(url)]

UrlParseRaisesOf ==
    [url \in NavUrls |-> UrlParseRaises(url)]

\* DomainAllowlistManager.is_domain_allowed
is_domain_allowed(allowed_domains, url) ==
    IF UrlParseRaisesOf[url] THEN FALSE
    ELSE LET domain == DomainOfUrl[url]
         IN  \/ domain \in allowed_domains
             \/ \E allowed_domain \in allowed_domains :
                    EndsWith(domain, <<".">> \o allowed_domain)

\* SecurityInterceptor.should_block_url: (should_block, reason)
should_block_url(allowed_domains, session_allowed_domains, url) ==
    LET domain == DomainOfUrl[url]
    IN  IF UrlGateOf[url].blocked
        THEN UrlGateOf[url]
        ELSE IF is_domain_allowed(allowed_domains, url)
        THEN [blocked |-> FALSE, reason |-> <<>>]
        ELSE IF \E session_domain \in session_allowed_domains :
                    \/ domain = session_domain
                    \/ EndsWith(domain, <<".">> \o session_domain)
        THEN [blocked |-> FALSE, reason |-> <<>>]
        ELSE [blocked |-> TRUE,
              reason |-> R_Domain_open \o domain \o R_not_in_allowlist_close]

\* SecurityInterceptor.get_domain_from_url
get_domain_from_url(url) ==
    IF UrlParseRaisesOf[url] THEN <<>> ELSE DomainOfUrl[url]

\* DomainAllowlistManager.add_domain: the in-memory set after the call
add_domain(allowed_domains, domain) ==
    LET d == Strip(Lower(domain))
    IN  IF d # <<>> /\ d \notin allowed_domains
        THEN allowed_domains \cup {d}
        ELSE allowed_domains

\* SecurityInterceptor.allow_domain_once: the session set after the call
allow_domain_once(session_allowed_domains, domain) ==
    LET d == Strip(Lower(domain))
    IN  IF d # <<>> THEN session_allowed_domains \cup {d}
        ELSE session_allowed_domains

(***************************************************************************)
(* OAuthHandler                                                            *)
(***************************************************************************)
\* OAuthHandler.should_redirect_to_system_browser
ShouldRedirect(url) ==
    IF UrlParseRaises(Lower(url)) THEN FALSE
    ELSE LET hostname == Lower(Netloc(Lower(url)))
             path     == Lower(PathOf(Lower(url)))
             query    == Lower(QueryOf(Lower(url)))
         IN  \E pattern \in oauth_patterns :
                /\ Contains(hostname, pattern)
                /\ \/ \E keyword \in oauth_path_keywords :
                          Contains(path, keyword)
                   \/ Contains(query, K_oauth)
                   \/ Contains(query, K_response_type)

ShouldRedirectOf ==
    [url \in NavUrls |-> ShouldRedirect(url)]

should_redirect_to_system_browser(url) ==
    ShouldRedirectOf[url]

(***************************************************************************)
(* SecurePage: the navigation-interception callback                        *)
(***************************************************************************)
\* The buttons of DomainWarningDialog, and the dialog closed without one.
\* dialog.exec() == dialog.Accepted is read as the comparison with the
\* Accepted dialog code that choose_option's accept() produces.
Choices ==
    {"cancel", "allow_once", "add_to_allowlist", "dismissed"}

\* term in reason.lower()
ReasonHas(reason, term) ==
    Contains(Lower(reason), term)

\* a request turned down without a dialog
Refused(sb, domain) ==
    [blocked |-> sb.blocked, reason |-> sb.reason, domain |-> domain,
     prompted |-> FALSE, choice |-> "none", oauth_evaluated |-> FALSE,
     external |-> FALSE, accepted |-> FALSE]

\* acceptNavigationRequest after its calls of should_block_url (sb),
\* get_domain_from_url (domain) and, where it gets that far, of
\* handle_navigation_request (redirect: the URL went to the system browser)
answer_navigation(sb, domain, redirect, suppress_security_dialogs, is_main_frame, choice) ==
    IF /\ sb.blocked
       /\ \/ ReasonHas(sb.reason, T_not_allowed)
          \/ ReasonHas(sb.reason, T_scheme)
          \/ ReasonHas(sb.reason, T_internal_pages)
    THEN Refused(sb, domain)
    ELSE IF /\ sb.blocked
            /\ ReasonHas(sb.reason, T_not_in_allowlist)
            /\ is_main_frame
            /\ ~suppress_security_dialogs
            /\ domain # <<>>
    THEN [Refused(sb, domain) EXCEPT
            !.prompted = TRUE, !.choice = choice,
            !.accepted = choice \in {"allow_once", "add_to_allowlist"}]
    ELSE IF /\ sb.blocked
            /\ ~(/\ ReasonHas(sb.reason, T_not_in_allowlist)
                 /\ is_main_frame
                 /\ ~suppress_security_dialogs)
    THEN Refused(sb, domain)
    ELSE [Refused(sb, domain) EXCEPT
            !.oauth_evaluated = is_main_frame,
            !.external = is_main_frame /\ redirect,
            !.accepted = ~(is_main_frame /\ redirect)]

\* SecurePage.acceptNavigationRequest on page record pg: what it answers and
\* what it did on the way. open_ok: redirect_to_system_browser raised nothing.
acceptNavigationRequest(pg, url, is_main_frame, choice, open_ok) ==
    answer_navigation(
        should_block_url(pg.allowed_domains, pg.session_allowed_domains, url),
        get_domain_from_url(url),
        should_redirect_to_system_browser(url) /\ open_ok,
        pg.suppress_security_dialogs, is_main_frame, choice)

(***************************************************************************)
(* config.py, paths.py                                                     *)
(***************************************************************************)
CHATGPT_URL ==
    "https://chatgpt.com"

NUM_WORKSPACES ==
    4

\* the tab limit of a workspace, the literal of add_tab
MaxTabsPerWorkspace ==
    15

\* WorkspaceWidget.max_closed_tabs
max_closed_tabs ==
    10

DigitChars ==
    <<"0", "1", "2", "3", "4", "5", "6", "7", "8", "9">>

RECURSIVE Decimal(_)
\* the decimal digits of a natural number
Decimal(n) ==
    IF n < 10 THEN <<DigitChars[n + 1]>>
    ELSE Decimal(n \div 10) \o <<DigitChars[(n % 10) + 1]>>

\* str(n) of an integer, as an f-string formats it
str_of_int(n) ==
    IF n < 0 THEN <<"-">> \o Decimal(0 - n) ELSE Decimal(n)

\* paths.get_workspace_data_dir, below the application data directory
get_workspace_data_dir(workspace_id) ==
    <<"w", "o", "r", "k", "s", "p", "a", "c", "e", "_">> \o str_of_int(workspace_id)

\* paths.get_workspace_profile_dir
get_workspace_profile_dir(workspace_id) ==
    get_workspace_data_dir(workspace_id) \o <<"/", "p", "r", "o", "f", "i", "l", "e">>

(***************************************************************************)
(* The files of the application: sessions.json, whose content is the       *)
(* parsed JSON object (from key text to workspace record) or unreadable,   *)
(* and the notepad.md of the workspaces 0..3, whose directories            *)
(* ensure_directories creates; linesep is os.linesep of the platform       *)
(***************************************************************************)
\* config.DEFAULT_WORKSPACE_NAMES
DEFAULT_WORKSPACE_NAMES ==
    <<"Workspace 1", "Workspace 2", "Workspace 3", "Workspace 4">>

\* os.linesep on POSIX and on Windows
Platforms ==
    {<<"\n">>, <<"\r", "\n">>}

\* the workspaces whose data directory ensure_directories creates
WorkspaceDirs ==
    0..3

\* a file that does not exist
NoFile ==
    [exists |-> FALSE, readable |-> FALSE, content |-> <<>>]

\* the files of a first run on a platform, but for the session file
FilesWith(file, linesep) ==
    [session_file |-> file,
     notepad_files |-> [i \in WorkspaceDirs |-> NoFile],
     linesep |-> linesep]

RECURSIVE write_translated(_, _)
\* what a file opened in text mode stores for a text: every "\n" becomes
\* os.linesep
write_translated(text, linesep) ==
    IF text = <<>> THEN <<>>
    ELSE (IF Head(text) = "\n" THEN linesep ELSE <<Head(text)>>)
            \o write_translated(Tail(text), linesep)

RECURSIVE read_translated(_)
\* what a file opened in text mode gives for its stored characters: "\r\n"
\* and a lone "\r" become "\n" (universal newlines)
read_translated(stored) ==
    IF stored = <<>> THEN <<>>
    ELSE IF Head(stored) = "\r"
    THEN <<"\n">> \o read_translated(
                        IF Len(stored) > 1 /\ stored[2] = "\n"
                        THEN Tail(Tail(stored)) ELSE Tail(stored))
    ELSE <<Head(stored)>> \o read_translated(Tail(stored))

(***************************************************************************)
(* SessionManager.load_sessions                                            *)
(***************************************************************************)
\* TabData(url=...), title defaulting to "ChatGPT"
DefaultTab ==
    [url |-> CHATGPT_URL, title |-> "ChatGPT"]

\* the workspace record of _create_default_workspaces and of the backfill
DefaultWorkspaceData(i) ==
    [name |-> DEFAULT_WORKSPACE_NAMES[i + 1],
     tabs |-> <<DefaultTab>>,
     active_tab |-> 0,
     notepad_content |-> <<>>,
     notepad_visible |-> FALSE]

\* SessionManager._create_default_workspaces
create_default_workspaces ==
    [i \in 0..(NUM_WORKSPACES - 1) |-> DefaultWorkspaceData(i)]

\* the texts int() reads as a decimal number: an optional sign, then digits
IsIntText(s) ==
    /\ s # <<>>
    /\ IF s[1] \in {"-", "+"}
       THEN Len(s) > 1 /\ \A i \in 2..Len(s) : s[i] \in Digits
       ELSE \A i \in 1..Len(s) : s[i] \in Digits

RECURSIVE DigitsValue(_)
DigitsValue(s) ==
    IF s = <<>> THEN 0
    ELSE 10 * DigitsValue(SubSeq(s, 1, Len(s) - 1))
            + (CHOOSE d \in 0..9 : DigitChars[d + 1] = s[Len(s)])

\* int(workspace_id_str), for a text that IsIntText
int_of(s) ==
    IF s[1] = "-" THEN 0 - DigitsValue(Tail(s))
    ELSE IF s[1] = "+" THEN DigitsValue(Tail(s))
    ELSE DigitsValue(s)

\* DEFAULT_WORKSPACE_NAMES[workspace_id] raises IndexError: the list has
\* NUM_WORKSPACES entries and Python counts negative indices from its end
NameIndexRaises(workspace_id) ==
    workspace_id >= NUM_WORKSPACES \/ workspace_id < 0 - NUM_WORKSPACES

\* a key of the session file that makes load_sessions raise
KeyRaises(key) ==
    IF IsIntText(key) THEN NameIndexRaises(int_of(key)) ELSE TRUE

\* min(a, b) and max(a, b)
Min(a, b) ==
    IF a <= b THEN a ELSE b

Max(a, b) ==
    IF a >= b THEN a ELSE b

\* TabData(**tab_data) raises TypeError: url is missing, or a key is no field
TabDataRaises(tab_data) ==
    "url" \notin DOMAIN tab_data \/ ~(DOMAIN tab_data \subseteq {"url", "title"})

\* TabData(**tab_data), title defaulting to "ChatGPT"
TabData(tab_data) ==
    [url |-> tab_data.url,
     title |-> IF "title" \in DOMAIN tab_data THEN tab_data.title
               ELSE "ChatGPT"]

\* a record of the session file that makes load_sessions raise: an entry of
\* tabs is no TabData, or tabs or active_tab has a JSON value of another
\* type than the list and the number the code computes with (wrong_type
\* names the fields whose value has another type)
RecordRaises(data) ==
    \/ "tabs" \in DOMAIN data
            /\ \E i \in 1..Len(data.tabs) : TabDataRaises(data.tabs[i])
    \/ "wrong_type" \in DOMAIN data
            /\ data.wrong_type \cap {"tabs", "active_tab"} # {}

\* data.get('tabs', []), an empty list replaced by one default tab
LoadedTabs(data) ==
    IF "tabs" \in DOMAIN data /\ data.tabs # <<>>
    THEN [i \in 1..Len(data.tabs) |-> TabData(data.tabs[i])]
    ELSE <<DefaultTab>>

\* the text of the notepad file of a workspace, "" when there is none
LoadedNotepad(fs, workspace_id) ==
    IF workspace_id \in DOMAIN fs.notepad_files
          /\ fs.notepad_files[workspace_id].exists
    THEN read_translated(fs.notepad_files[workspace_id].content)
    ELSE <<>>

\* the WorkspaceData load_sessions builds from one record of the file
LoadedWorkspaceData(fs, workspace_id, data) ==
    [name |-> IF "name" \in DOMAIN data THEN data.name
              ELSE DEFAULT_WORKSPACE_NAMES[(workspace_id % NUM_WORKSPACES) + 1],
     tabs |-> LoadedTabs(data),
     active_tab |-> Max(0, Min(IF "active_tab" \in DOMAIN data
                               THEN data.active_tab ELSE 0,
                               Len(LoadedTabs(data)) - 1)),
     notepad_content |-> LoadedNotepad(fs, workspace_id),
     notepad_visible |-> IF "notepad_visible" \in DOMAIN data
                         THEN data.notepad_visible ELSE FALSE]

\* the record of the file stored under the key that reads as workspace_id
RecordOf(file, workspace_id) ==
    file[CHOOSE key \in DOMAIN file : int_of(key) = workspace_id]

\* load_sessions that returns the workspaces of the file alone
load_sessions_without_backfill(fs) ==
    IF ~fs.session_file.exists THEN create_default_workspaces
    ELSE IF ~fs.session_file.readable THEN create_default_workspaces
    ELSE [i \in {int_of(key) : key \in DOMAIN fs.session_file.content} |->
            LoadedWorkspaceData(fs, i, RecordOf(fs.session_file.content, i))]

\* SessionManager.load_sessions. The backfill runs over range(4).
load_sessions(fs) ==
    IF ~fs.session_file.exists THEN create_default_workspaces
    ELSE IF ~fs.session_file.readable THEN create_default_workspaces
    ELSE IF \E key \in DOMAIN fs.session_file.content :
                KeyRaises(key) \/ RecordRaises(fs.session_file.content[key])
    THEN create_default_workspaces
    ELSE [i \in {int_of(key) : key \in DOMAIN fs.session_file.content}
                   \cup 0..(NUM_WORKSPACES - 1) |->
            IF i \in {int_of(key) : key \in DOMAIN fs.session_file.content}
            THEN LoadedWorkspaceData(fs, i,
                                     RecordOf(fs.session_file.content, i))
            ELSE DefaultWorkspaceData(i)]
(***************************************************************************)
(* WorkspaceWidget: the tab controller of one workspace                    *)
(*                                                                         *)
(* A workspace is a record: tab_widget is the QTabWidget (its tabs in bar  *)
(* order and its current index), views the ChatGPTWebViews ever created    *)
(* (a view is named by its position there), popups the pages made by       *)
(* SecurePage.createWindow, session_changed whether the signal of that     *)
(* name was emitted since the main window last looked.                     *)
(***************************************************************************)
\* WorkspaceWidget._create_workspace_profile
create_workspace_profile(workspace_id) ==
    [name |-> <<"w", "o", "r", "k", "s", "p", "a", "c", "e", "_">>
                \o str_of_int(workspace_id),
     storage_path |-> get_workspace_profile_dir(workspace_id)]

\* QTabWidget.count
count(ws) ==
    Len(ws.tab_widget.tabs)

\* s without its element at position k
RemoveAt(s, k) ==
    SubSeq(s, 1, k - 1) \o SubSeq(s, k + 1, Len(s))

\* list.remove(x): s without the first element equal to x
Remove(s, x) ==
    IF \E i \in 1..Len(s) : s[i] = x
    THEN RemoveAt(s, CHOOSE i \in 1..Len(s) :
                        s[i] = x /\ \A j \in 1..(i - 1) : s[j] # x)
    ELSE s

\* QTabWidget.setCurrentIndex, with _on_tab_changed as the slot of currentChanged
setCurrentIndex(ws, index) ==
    IF 0 <= index /\ index < count(ws) /\ index # ws.tab_widget.currentIndex
    THEN [ws EXCEPT !.tab_widget.currentIndex = index,
                    !.workspace_data.active_tab = index,
                    !.session_changed = TRUE]
    ELSE ws

\* QTabWidget.addTab: the tab goes to the end; the first tab becomes the
\* current one, and currentChanged(0) reaches _on_tab_changed
addTab(ws, view, label) ==
    [ws EXCEPT
        !.tab_widget.tabs = Append(@, [view |-> view, text |-> label]),
        !.tab_widget.currentIndex = IF count(ws) = 0 THEN 0 ELSE @,
        !.workspace_data.active_tab = IF count(ws) = 0 THEN 0 ELSE @,
        !.session_changed = IF count(ws) = 0 THEN TRUE ELSE @]

\* the current index QTabBar picks when the tab at index goes (SelectRightTab)
CurrentAfterRemove(ws, index) ==
    IF index = ws.tab_widget.currentIndex
    THEN IF index + 1 < count(ws) THEN index ELSE index - 1
    ELSE IF index < ws.tab_widget.currentIndex
    THEN ws.tab_widget.currentIndex - 1
    ELSE ws.tab_widget.currentIndex

\* removeTab when no currentChanged reaches _on_tab_changed: the tracked
\* active tab stays as it was
removeTab_without_tab_changed(ws, index) ==
    [ws EXCEPT
        !.tab_widget.tabs = RemoveAt(@, index + 1),
        !.tab_widget.currentIndex = CurrentAfterRemove(ws, index)]

\* QTabWidget.removeTab of an existing tab; currentChanged reaches
\* _on_tab_changed when the current tab went or moved
removeTab(ws, index) ==
    [ws EXCEPT
        !.tab_widget.tabs = RemoveAt(@, index + 1),
        !.tab_widget.currentIndex = CurrentAfterRemove(ws, index),
        !.workspace_data.active_tab =
            IF index <= ws.tab_widget.currentIndex
            THEN CurrentAfterRemove(ws, index) ELSE @,
        !.session_changed =
            IF index <= ws.tab_widget.currentIndex THEN TRUE ELSE @]

\* the limit check letting one tab too many through
at_tab_limit_off_by_one(ws) ==
    Len(ws.web_views) > MaxTabsPerWorkspace

\* add_tab's memory protection
at_tab_limit(ws) ==
    Len(ws.web_views) >= MaxTabsPerWorkspace

\* WorkspaceWidget.add_tab past its limit check: the view is created on the
\* workspace profile, loads url, joins web_views and the tab bar, and a
\* TabData is appended when the tab index is beyond the tracked tabs
add_tab_created(ws, url) ==
    addTab(
        [ws EXCEPT
            !.views = Append(@, [url |-> url, profile |-> ws.workspace_profile,
                                 deleted |-> FALSE]),
            !.web_views = Append(@, Len(ws.views) + 1),
            !.workspace_data.tabs =
                IF count(ws) >= Len(@)
                THEN Append(@, [url |-> url, title |-> "ChatGPT"]) ELSE @,
            !.session_changed = TRUE],
        Len(ws.views) + 1, "ChatGPT")

\* WorkspaceWidget.add_tab: the workspace after the call and the index returned
add_tab(ws, url) ==
    IF at_tab_limit(ws)
    THEN [ws |-> ws, index |-> ws.tab_widget.currentIndex]
    ELSE [ws |-> add_tab_created(ws, url), index |-> count(ws)]

\* self.tab_widget.setCurrentIndex(index) on what add_tab returned
select_added(added) ==
    setCurrentIndex(added.ws, added.index)

\* WorkspaceWidget.new_tab
new_tab(ws) ==
    select_added(add_tab(ws, CHATGPT_URL))

\* WorkspaceWidget.restore_last_closed_tab
restore_last_closed_tab(ws) ==
    IF ws.closed_tabs = <<>> THEN ws
    ELSE select_added(
            add_tab([ws EXCEPT !.closed_tabs = SubSeq(@, 1, Len(@) - 1)],
                    ws.closed_tabs[Len(ws.closed_tabs)].url))

\* closed_tabs when close_tab drops the newest entry of a full list
closed_tabs_dropping_newest(ws, index) ==
    IF Len(ws.closed_tabs) + 1 > max_closed_tabs THEN ws.closed_tabs
    ELSE Append(ws.closed_tabs,
                [url |-> ws.views[ws.tab_widget.tabs[index + 1].view].url,
                 title |-> ws.tab_widget.tabs[index + 1].text])

\* closed_tabs after close_tab appended the tab at index and trimmed the list
closed_tabs_after(ws, index) ==
    IF Len(ws.closed_tabs) + 1 > max_closed_tabs
    THEN Tail(Append(ws.closed_tabs,
                     [url |-> ws.views[ws.tab_widget.tabs[index + 1].view].url,
                      title |-> ws.tab_widget.tabs[index + 1].text]))
    ELSE Append(ws.closed_tabs,
                [url |-> ws.views[ws.tab_widget.tabs[index + 1].view].url,
                 title |-> ws.tab_widget.tabs[index + 1].text])

\* close_tab past its checks: the tab at index is remembered in closed_tabs
\* and leaves the tracked tabs, web_views and the tab bar; its view is deleted
close_existing_tab(ws, index) ==
    removeTab(
        [ws EXCEPT
            !.closed_tabs = closed_tabs_after(ws, index),
            !.workspace_data.tabs =
                IF index < Len(@) THEN RemoveAt(@, index + 1) ELSE @,
            !.web_views = Remove(@, ws.tab_widget.tabs[index + 1].view),
            !.views[ws.tab_widget.tabs[index + 1].view].deleted = TRUE,
            !.session_changed = TRUE],
        index)

\* close_tab without its check for the last tab
close_tab_also_last(ws, index) ==
    IF index < 0 \/ index >= count(ws) THEN ws
    ELSE close_existing_tab(ws, index)

\* WorkspaceWidget.close_tab
close_tab(ws, index) ==
    IF count(ws) <= 1 THEN ws
    ELSE IF index < 0 \/ index >= count(ws) THEN ws
    ELSE close_existing_tab(ws, index)

\* WorkspaceWidget._update_url_for_view, on the url_changed signal of a view
\* whose page went to url
update_url_for_view(ws, view, url) ==
    [ws EXCEPT
        !.views[view].url = url,
        !.workspace_data.tabs =
            IF \E i \in 1..Min(count(ws), Len(@)) : ws.tab_widget.tabs[i].view = view
            THEN [@ EXCEPT ![CHOOSE i \in 1..count(ws) :
                                ws.tab_widget.tabs[i].view = view].url = url]
            ELSE @,
        !.session_changed =
            IF \E i \in 1..Min(count(ws), Len(ws.workspace_data.tabs)) :
                    ws.tab_widget.tabs[i].view = view
            THEN TRUE ELSE @]

\* a popup page made without the opener's profile: it lands on the default one
popup_page_on_default_profile(ws, view) ==
    [opener |-> view, profile |-> [name |-> <<>>, storage_path |-> <<>>]]

\* the page SecurePage.createWindow makes for a popup of the page of a view
popup_page(ws, view) ==
    [opener |-> view, profile |-> ws.views[view].profile]

\* SecurePage.createWindow on the page of a view of the workspace
create_popup(ws, view) ==
    [ws EXCEPT !.popups = Append(@, popup_page(ws, view))]

RECURSIVE restore_tabs(_, _)
\* the loop of restore_session from the k-th tracked tab on
restore_tabs(ws, k) ==
    IF k > Len(ws.workspace_data.tabs) THEN ws
    ELSE restore_tabs(add_tab(ws, ws.workspace_data.tabs[k].url).ws, k + 1)

\* the end of restore_session: the stored active tab is made current
restore_active_tab(ws) ==
    IF 0 <= ws.workspace_data.active_tab /\ ws.workspace_data.active_tab < count(ws)
    THEN setCurrentIndex(ws, ws.workspace_data.active_tab)
    ELSE ws

\* WorkspaceWidget.restore_session
restore_session(ws) ==
    restore_active_tab(restore_tabs(ws, 1))

\* WorkspaceWidget.__init__
WorkspaceWidget(workspace_id, workspace_data) ==
    restore_session(
        [workspace_id |-> workspace_id,
         workspace_data |-> workspace_data,
         web_views |-> <<>>,
         closed_tabs |-> <<>>,
         workspace_profile |-> create_workspace_profile(workspace_id),
         tab_widget |-> [tabs |-> <<>>, currentIndex |-> -1],
         views |-> <<>>,
         popups |-> <<>>,
         original_url |-> [view \in {} |-> ""],
         session_changed |-> FALSE])


\* WorkspaceWidget.get_session_data: the tabs as the tab bar shows them, each
\* with the URL of its page and its tab text, and the current index
get_session_data(ws) ==
    [name |-> ws.workspace_data.name,
     tabs |-> [i \in 1..count(ws) |->
                  [url |-> ws.views[ws.tab_widget.tabs[i].view].url,
                   title |-> ws.tab_widget.tabs[i].text]],
     active_tab |-> ws.tab_widget.currentIndex,
     notepad_content |-> ws.workspace_data.notepad_content,
     notepad_visible |-> ws.workspace_data.notepad_visible]

\* QTabWidget.indexOf: the index of the tab that shows the view, -1 when no
\* tab shows it
indexOf(ws, view) ==
    IF \E i \in 1..count(ws) : ws.tab_widget.tabs[i].view = view
    THEN (CHOOSE i \in 1..count(ws) : ws.tab_widget.tabs[i].view = view) - 1
    ELSE -1

\* a page title of more than 30 characters, and its first 30 characters
\* followed by "..."
LongTitle ==
    "How to model a tab widget in TLA+"

LongTitleTruncated ==
    "How to model a tab widget in T..."

\* the titles pages take in this model; LongTitle alone has more than 30
\* characters
Titles ==
    {"New chat", LongTitle}

\* title[:30] + "..." if len(title) > 30 else title, on Titles
truncated_title(title) ==
    IF title = LongTitle THEN LongTitleTruncated ELSE title

\* the index a view had when add_tab connected its signals
index_when_connected(ws, view) ==
    IF view <= count(ws) THEN view - 1 ELSE -1

\* the index _update_title_for_view and _update_url_for_view work on
index_of_view(ws, view) ==
    indexOf(ws, view)

\* WorkspaceWidget._update_title_for_view, on titleChanged of a view
update_title_for_view(ws, view, title) ==
    IF index_of_view(ws, view) < 0 THEN ws
    ELSE [ws EXCEPT
            !.tab_widget.tabs[index_of_view(ws, view) + 1].text =
                truncated_title(title),
            !.workspace_data.tabs =
                IF index_of_view(ws, view) < Len(@)
                THEN [@ EXCEPT ![index_of_view(ws, view) + 1].title =
                                    truncated_title(title)]
                ELSE @,
            !.session_changed =
                IF index_of_view(ws, view) < Len(ws.workspace_data.tabs)
                THEN TRUE ELSE @]

\* WorkspaceWidget._update_url_for_view, on url_changed of a view
on_url_changed(ws, view, url) ==
    IF index_of_view(ws, view) < 0 \/ index_of_view(ws, view) >= Len(ws.workspace_data.tabs)
    THEN ws
    ELSE [ws EXCEPT !.workspace_data.tabs[index_of_view(ws, view) + 1].url = url,
                    !.session_changed = TRUE]
(***************************************************************************)
(* SessionManager: the hashes of what it last wrote, and save_sessions     *)
(***************************************************************************)
\* None
None ==
    <<>>

\* SessionManager._compute_content_hash: the MD5 digest of the content,
\* kept as the content it stands for (digests of different contents differ)
compute_content_hash(content) ==
    <<content>>

\* SessionManager.__init__
SessionManager ==
    [last_session_hash |-> None,
     last_notepad_hashes |-> [i \in {} |-> None]]

\* self._last_notepad_hashes.get(workspace_id)
last_notepad_hash(sm, workspace_id) ==
    IF workspace_id \in DOMAIN sm.last_notepad_hashes
    THEN sm.last_notepad_hashes[workspace_id] ELSE None

\* what can go wrong with the disk during one save_sessions: nothing, the
\* write of the notepad file of one workspace, the open of the session
\* file, or the dump into the opened session file
IOOutcomes ==
    {[fails |-> "nothing", id |-> 0],
     [fails |-> "notepad", id |-> 0],
     [fails |-> "notepad", id |-> 2],
     [fails |-> "session_open", id |-> 0],
     [fails |-> "session_dump", id |-> 0]}

\* notepad_file.write_text raises: the disk fails, or the directory of the
\* workspace was never created
notepad_write_raises(workspace_id, io) ==
    \/ workspace_id \notin WorkspaceDirs
    \/ io.fails = "notepad" /\ io.id = workspace_id

RECURSIVE Ascending(_)
\* the ids of a set in ascending order, the order MainWindow.save_sessions
\* inserts them into the dictionary it passes
Ascending(ids) ==
    IF ids = {} THEN <<>>
    ELSE <<CHOOSE i \in ids : \A j \in ids : i <= j>>
            \o Ascending(ids \ {CHOOSE i \in ids : \A j \in ids : i <= j})

\* the state of save_sessions after the notepad file of workspace_id was
\* written and its hash remembered
notepad_written(r, workspace_id, notepad_content) ==
    [r EXCEPT
        !.files.notepad_files[workspace_id] =
            [exists |-> TRUE, readable |-> TRUE,
             content |-> write_translated(notepad_content, r.files.linesep)],
        !.session_manager.last_notepad_hashes =
            [i \in DOMAIN @ \cup {workspace_id} |->
                IF i = workspace_id THEN compute_content_hash(notepad_content)
                ELSE @[i]],
        !.files_written = @ + 1]

RECURSIVE save_notepads(_, _, _, _)
\* the loop of save_sessions over the workspaces ids: the notepad file of a
\* workspace is written when the hash of its content is not the remembered
\* one; a write that raises ends the loop
save_notepads(r, workspaces_data, ids, io) ==
    IF ids = <<>> THEN r
    ELSE IF compute_content_hash(workspaces_data[Head(ids)].notepad_content)
                = last_notepad_hash(r.session_manager, Head(ids))
    THEN save_notepads(r, workspaces_data, Tail(ids), io)
    ELSE IF notepad_write_raises(Head(ids), io)
    THEN [r EXCEPT !.raised = TRUE]
    ELSE save_notepads(
            notepad_written(r, Head(ids),
                            workspaces_data[Head(ids)].notepad_content),
            workspaces_data, Tail(ids), io)

\* session_data of save_sessions: under str(workspace_id), the name, the
\* tabs, the active tab and the visibility of the notepad
session_data_of(workspaces_data) ==
    [key \in {str_of_int(i) : i \in DOMAIN workspaces_data} |->
        [name |-> workspaces_data[int_of(key)].name,
         tabs |-> workspaces_data[int_of(key)].tabs,
         active_tab |-> workspaces_data[int_of(key)].active_tab,
         notepad_visible |-> workspaces_data[int_of(key)].notepad_visible]]

\* session_data with last_saved set in every record
with_last_saved(session_data, current_time) ==
    [key \in DOMAIN session_data |->
        [name |-> session_data[key].name,
         tabs |-> session_data[key].tabs,
         active_tab |-> session_data[key].active_tab,
         notepad_visible |-> session_data[key].notepad_visible,
         last_saved |-> current_time]]

\* the session hash computed after the timestamp went into the records
session_hash_with_timestamp(session_data, current_time) ==
    compute_content_hash(with_last_saved(session_data, current_time))

\* the hash of json.dumps(session_data, sort_keys=True), taken before the
\* timestamp goes into the records
session_hash(session_data, current_time) ==
    compute_content_hash(session_data)

\* the end of save_sessions, after the loop: the session file is written
\* when the hash of session_data is not the remembered one
save_session_file(r, session_data, current_time, io) ==
    IF r.raised THEN r
    ELSE IF session_hash(session_data, current_time)
                = r.session_manager.last_session_hash
    THEN r
    ELSE IF io.fails = "session_open" THEN [r EXCEPT !.raised = TRUE]
    ELSE IF io.fails = "session_dump"
    THEN [r EXCEPT !.raised = TRUE,
                   !.files.session_file =
                        [exists |-> TRUE, readable |-> FALSE, content |-> <<>>]]
    ELSE [r EXCEPT
            !.files.session_file =
                [exists |-> TRUE, readable |-> TRUE,
                 content |-> with_last_saved(session_data, current_time)],
            !.session_manager.last_session_hash =
                session_hash(session_data, current_time),
            !.files_written = @ + 1]

\* SessionManager.save_sessions: the manager and the files after the call,
\* whether an exception was caught (the call then returns False), and the
\* number of files written
save_sessions(sm, fs, workspaces_data, current_time, io) ==
    save_session_file(
        save_notepads([session_manager |-> sm, files |-> fs,
                       raised |-> FALSE, files_written |-> 0],
                      workspaces_data, Ascending(DOMAIN workspaces_data), io),
        session_data_of(workspaces_data), current_time, io)

(***************************************************************************)
(* MainWindow and MemoryManager after construction                         *)
(***************************************************************************)
\* MemoryManager.__init__
MemoryManager ==
    [workspace_last_used |-> [i \in {} |-> 0],
     tab_last_used |-> [k \in {} |-> 0],
     compressed_workspaces |-> {},
     compressed_tabs |-> {}]

\* the order of the dictionary load_sessions returns, which is the order in
\* which MainWindow.load_sessions adds the pages to workspace_stack: the
\* workspaces of the file in the order of the file (ascending, as
\* save_sessions writes them), then the workspaces backfilled
load_order(fs) ==
    IF load_sessions(fs) = create_default_workspaces
    THEN Ascending(0..(NUM_WORKSPACES - 1))
    ELSE Ascending({int_of(key) : key \in DOMAIN fs.session_file.content})
            \o Ascending(0..(NUM_WORKSPACES - 1)
                    \ {int_of(key) : key \in DOMAIN fs.session_file.content})

\* QStackedWidget.setCurrentIndex: an index that is no page changes nothing
stack_setCurrentIndex(win, index) ==
    IF index \in 0..(Len(win.workspace_stack) - 1)
    THEN [win EXCEPT !.stack_index = index]
    ELSE win

\* the workspace whose page workspace_stack displays
displayed_workspace(win) ==
    win.workspace_stack[win.stack_index + 1]

\* MainWindow.__init__ and load_sessions, but for the workspace widgets: the
\* window is on workspace 0 and displays the first page, nothing is dirty,
\* and every loaded workspace has a notepad with the loaded content, shown
\* when the workspace says so
MainWindow(workspace_data, order) ==
    [current_workspace |-> 0,
     workspace_stack |-> order,
     stack_index |-> 0,
     session_dirty |-> FALSE,
     notepad_dirty |-> FALSE,
     notepads |-> [i \in DOMAIN workspace_data |->
                     [content |-> workspace_data[i].notepad_content,
                      shown |-> workspace_data[i].notepad_visible,
                      content_changed |-> FALSE]],
     close_event |-> <<>>,
     close_raised |-> FALSE]

\* MainWindow._mark_session_dirty, the slot of session_changed
mark_session_dirty(win, session_changed) ==
    [win EXCEPT !.session_dirty = @ \/ session_changed]

\* no save_sessions was called yet
NoSave ==
    [called |-> FALSE, ok |-> FALSE, workspaces |-> <<>>, files_written |-> 0,
     repeated |-> FALSE, same_manager |-> FALSE, saves |-> 0,
     failed |-> 0]

\* nobody switched workspaces yet: every workspace counts from the start,
\* none was compressed or restored
NoUsage ==
    [activated_at |-> [i \in 0..(NUM_WORKSPACES - 1) |-> 0],
     left_at |-> [i \in 0..(NUM_WORKSPACES - 1) |-> 0],
     compressed_at |-> [i \in 0..(NUM_WORKSPACES - 1) |-> 0],
     was_compressed |-> FALSE,
     restores |-> 0,
     switches |-> 0]

\* MainWindow.load_sessions: a WorkspaceWidget for every loaded workspace;
\* session_changed is connected once the widget is made
WorkspacesOf(workspace_data) ==
    [workspace_id \in DOMAIN workspace_data |->
        [WorkspaceWidget(workspace_id, workspace_data[workspace_id])
            EXCEPT !.session_changed = FALSE]]

\* the application started on these files
StartedFrom(fs) ==
    /\ files = fs
    /\ workspaces = WorkspacesOf(load_sessions(fs))
    /\ window = MainWindow(load_sessions(fs), load_order(fs))
    /\ session_manager = SessionManager
    /\ memory_manager = MemoryManager
    /\ clock = 0
    /\ usage = NoUsage
    /\ last_save = NoSave
    /\ tab_ops = 0
    /\ last_op = [op |-> "none", w |-> 0]

\* no page was made yet
NoPages ==
    /\ allowlist_file = {}
    /\ pages = <<>>
    /\ allow_count = 0

(***************************************************************************)
(* MemoryManager and the MainWindow handlers that use it.  The operators   *)
(* take and return the application: the workspace widgets, the main        *)
(* window, the memory manager, the session manager, the files, and the     *)
(* number of times restore_workspace reloaded a workspace                  *)
(***************************************************************************)
COMPRESSION_DELAY_MINUTES == 5
CHECK_INTERVAL_MS == 60000

\* the page views of compressed workspaces are sent to
ABOUT_BLANK == "about:blank"

\* QWebEngineView.setUrl: the view is on url at once, urlChanged goes to
\* ChatGPTWebView._on_url_changed, and url_changed to _update_url_for_view
setUrl(ws, view, url) ==
    on_url_changed([ws EXCEPT !.views[view].url = url], view, url)

\* MemoryManager.compress_workspace, for one tab: the URL of the view is kept
\* in _original_url and the view goes to about:blank
compress_view(ws, view) ==
    setUrl([ws EXCEPT !.original_url = (view :> ws.views[view].url) @@ @],
           view, ABOUT_BLANK)

\* MemoryManager.compress_workspace: the loop over the first k tabs
RECURSIVE compress_views(_, _)
compress_views(ws, k) ==
    IF k = 0 THEN ws
    ELSE compress_view(compress_views(ws, k - 1), ws.tab_widget.tabs[k].view)

\* MemoryManager.restore_workspace, for one tab: a view with _original_url
\* goes back to it
restore_view(ws, view) ==
    IF view \in DOMAIN ws.original_url
    THEN setUrl(ws, view, ws.original_url[view])
    ELSE ws

\* MemoryManager.restore_workspace: the loop over the first k tabs
RECURSIVE restore_views(_, _)
restore_views(ws, k) ==
    IF k = 0 THEN ws
    ELSE restore_view(restore_views(ws, k - 1), ws.tab_widget.tabs[k].view)

\* the workspace widget ws takes the place of workspace workspace_id, and
\* the session_changed it emitted meanwhile has reached _mark_session_dirty
with_workspace(app, workspace_id, ws) ==
    [app EXCEPT
        !.workspaces[workspace_id] = [ws EXCEPT !.session_changed = FALSE],
        !.window = mark_session_dirty(@, ws.session_changed)]

\* MemoryManager.is_workspace_compressed
is_workspace_compressed(app, workspace_id) ==
    workspace_id \in app.memory_manager.compressed_workspaces

\* MemoryManager.compress_workspace
compress_workspace(app, workspace_id) ==
    IF workspace_id \in app.memory_manager.compressed_workspaces
    THEN app
    ELSE [with_workspace(app, workspace_id,
                         compress_views(app.workspaces[workspace_id],
                                        count(app.workspaces[workspace_id])))
            EXCEPT !.memory_manager.compressed_workspaces =
                        @ \cup {workspace_id}]

\* MemoryManager.restore_workspace
restore_workspace(app, workspace_id) ==
    IF workspace_id \notin app.memory_manager.compressed_workspaces
    THEN app
    ELSE [with_workspace(app, workspace_id,
                         restore_views(app.workspaces[workspace_id],
                                       count(app.workspaces[workspace_id])))
            EXCEPT !.memory_manager.compressed_workspaces =
                        @ \ {workspace_id},
                   !.restores = @ + 1]

\* MainWindow._handle_workspace_loading, the slot of workspace_needs_loading
handle_workspace_loading(app, workspace_id) ==
    IF workspace_id \in DOMAIN app.workspaces
        /\ is_workspace_compressed(app, workspace_id)
    THEN restore_workspace(app, workspace_id)
    ELSE app

\* MemoryManager.mark_workspace_used at current_time: a compressed workspace
\* leaves compressed_workspaces and workspace_needs_loading is emitted
mark_workspace_used(app, workspace_id, current_time) ==
    IF workspace_id \in app.memory_manager.compressed_workspaces
    THEN handle_workspace_loading(
            [app EXCEPT
                !.memory_manager.workspace_last_used =
                    (workspace_id :> current_time) @@ @,
                !.memory_manager.compressed_workspaces = @ \ {workspace_id}],
            workspace_id)
    ELSE [app EXCEPT
            !.memory_manager.workspace_last_used =
                (workspace_id :> current_time) @@ @]

\* MemoryManager.mark_tab_used at current_time; the key "workspace_id:index"
\* is the pair
mark_tab_used(app, workspace_id, tab_index, current_time) ==
    [app EXCEPT
        !.memory_manager.tab_last_used =
            (<<workspace_id, tab_index>> :> current_time) @@ @,
        !.memory_manager.compressed_tabs = @ \ {<<workspace_id, tab_index>>}]

\* a slot that compresses whatever workspace the signal names
compress_any_workspace(app, workspace_id) ==
    IF workspace_id \in DOMAIN app.workspaces
    THEN compress_workspace(app, workspace_id)
    ELSE app

\* MainWindow._compress_workspace, the slot of compress_workspace_signal
compress_workspace_slot(app, workspace_id) ==
    IF workspace_id = app.window.current_workspace
    THEN app
    ELSE IF workspace_id \in DOMAIN app.workspaces
         THEN compress_workspace(app, workspace_id)
         ELSE app

\* MemoryManager._cleanup_unused_memory: the workspaces to compress, chosen
\* among those with a time in workspace_last_used
workspaces_to_compress(memory, current_time) ==
    {workspace_id \in DOMAIN memory.workspace_last_used :
        /\ current_time - memory.workspace_last_used[workspace_id]
                > COMPRESSION_DELAY_MINUTES * 60
        /\ workspace_id \notin memory.compressed_workspaces}

\* the compress_workspace_signal of every workspace of to_compress below k
RECURSIVE compress_each(_, _, _)
compress_each(app, to_compress, k) ==
    IF k = 0 THEN app
    ELSE IF (k - 1) \in to_compress
         THEN compress_workspace_slot(compress_each(app, to_compress, k - 1),
                                      k - 1)
         ELSE compress_each(app, to_compress, k - 1)

\* MemoryManager._cleanup_unused_memory at current_time
cleanup_unused_memory(app, current_time) ==
    compress_each(app,
                  workspaces_to_compress(app.memory_manager, current_time),
                  NUM_WORKSPACES)

\* QWidget.isVisible of the notepad of a workspace: it is shown and its page
\* is the one workspace_stack displays
notepad_isVisible(win, workspace_id) ==
    win.notepads[workspace_id].shown
        /\ displayed_workspace(win) = workspace_id

\* MainWindow.save_sessions: the snapshot handed to the session manager
window_snapshot(app) ==
    [workspace_id \in {i \in 0..(NUM_WORKSPACES - 1) :
                          i \in DOMAIN app.workspaces
                          /\ i \in DOMAIN app.window.notepads} |->
        [get_session_data(app.workspaces[workspace_id]) EXCEPT
            !.notepad_content = app.window.notepads[workspace_id].content,
            !.notepad_visible = notepad_isVisible(app.window, workspace_id)]]

\* MainWindow.save_sessions, after SessionManager.save_sessions left r: the
\* dirty flags are cleared when it returned True
window_saved(app, r) ==
    [app EXCEPT
        !.session_manager = r.session_manager,
        !.files = r.files,
        !.window.session_dirty = IF r.raised THEN @ ELSE FALSE,
        !.window.notepad_dirty = IF r.raised THEN @ ELSE FALSE,
        !.window.notepads =
            IF r.raised THEN @
            ELSE [i \in DOMAIN @ |-> [@[i] EXCEPT !.content_changed = FALSE]]]

\* MainWindow.save_sessions at current_time, on a disk that does io
window_save_sessions(app, current_time, io) ==
    IF ~(app.window.session_dirty \/ app.window.notepad_dirty)
    THEN app
    ELSE window_saved(app,
                      save_sessions(app.session_manager, app.files,
                                    window_snapshot(app), current_time, io))

\* MainWindow.switch_workspace, from mark_tab_used on
switch_after_mark(app, workspace_id) ==
    [(IF is_workspace_compressed(app, workspace_id)
         /\ workspace_id \in DOMAIN app.workspaces
      THEN restore_workspace(app, workspace_id)
      ELSE app)
        EXCEPT !.window =
                stack_setCurrentIndex(
                    [@ EXCEPT !.current_workspace = workspace_id],
                    workspace_id)]

\* MainWindow.switch_workspace, from the tab marked used on
switch_mark_tab(app, workspace_id, current_time) ==
    switch_after_mark(
        IF workspace_id \in DOMAIN app.workspaces
            /\ app.workspaces[workspace_id].tab_widget.currentIndex >= 0
        THEN mark_tab_used(app, workspace_id,
                 app.workspaces[workspace_id].tab_widget.currentIndex,
                 current_time)
        ELSE app,
        workspace_id)

\* MainWindow.switch_workspace at current_time, on a disk that does io
switch_workspace(app, workspace_id, current_time, io) ==
    IF workspace_id = app.window.current_workspace
        \/ workspace_id >= NUM_WORKSPACES
    THEN app
    ELSE switch_mark_tab(
            mark_workspace_used(window_save_sessions(app, current_time, io),
                                workspace_id, current_time),
            workspace_id, current_time)

(***************************************************************************)
(* The notepad editor and MainWindow.closeEvent                            *)
(***************************************************************************)
\* the user types in the notepad of the current workspace: textChanged goes
\* to NotepadWidget._on_text_changed, content_changed to _mark_notepad_dirty
text_changed(win, text) ==
    [win EXCEPT
        !.notepads[win.current_workspace] =
            [@ EXCEPT !.content = text, !.content_changed = TRUE],
        !.notepad_dirty = TRUE]

\* NotepadWidget.has_changes of some notepad
some_notepad_has_changes(win) ==
    \E i \in DOMAIN win.notepads : win.notepads[i].content_changed

\* MainWindow._force_save_pending_changes: no notepad has a _save_timer; for
\* the first notepad with changes notepad_dirty is set and
\* notepad._emit_content_changed() is called, which NotepadWidget does not
\* have: AttributeError
force_save_pending_changes(win) ==
    IF some_notepad_has_changes(win)
    THEN [win EXCEPT !.notepad_dirty = TRUE, !.close_raised = TRUE]
    ELSE win

\* WorkspaceWidget.cleanup: the closed tabs are forgotten, every view of
\* web_views is deleted, and the profile is cleared
cleanup(ws) ==
    [ws EXCEPT
        !.closed_tabs = <<>>,
        !.views = [view \in DOMAIN @ |->
                      IF \E k \in 1..Len(ws.web_views) : ws.web_views[k] = view
                      THEN [@[view] EXCEPT !.deleted = TRUE] ELSE @[view]],
        !.web_views = <<>>]

\* the steps of the cleanup of one workspace, as closeEvent logs them
cleanup_steps(workspace_id) ==
    <<[step |-> "deleteLater", w |-> workspace_id],
      [step |-> "clear_profile", w |-> workspace_id]>>

\* the loop of closeEvent over the workspaces in ids
RECURSIVE cleanup_each(_, _)
cleanup_each(app, ids) ==
    IF ids = <<>> THEN app
    ELSE cleanup_each(
            [app EXCEPT
                !.workspaces[Head(ids)] = cleanup(@),
                !.window.close_event = @ \o cleanup_steps(Head(ids))],
            Tail(ids))

\* MainWindow.closeEvent, after _force_save_pending_changes returned
close_after_force(app, current_time, io) ==
    cleanup_each(
        [window_save_sessions(app, current_time, io) EXCEPT
            !.window.close_event =
                <<[step |-> "save_sessions", w |-> 0]>>],
        app.window.workspace_stack)

\* MainWindow.closeEvent at current_time, on a disk that does io: an
\* exception of _force_save_pending_changes leaves it before save_sessions
closeEvent(app, current_time, io) ==
    IF some_notepad_has_changes(app.window)
    THEN [app EXCEPT !.window = force_save_pending_changes(@)]
    ELSE close_after_force(app, current_time, io)

(***************************************************************************)
(* The navigation model                                                    *)
(***************************************************************************)
\* Bounds of the navigation model
MaxPages == 2

MaxAllowDecisions == 2

InitialAllowlistFiles ==
    {{}, default_domains \cup {H_notchatgpt_com}}

\* DomainAllowlistManager.__init__: load_allowlist, then _ensure_default_domains
LoadedAllowlist ==
    allowlist_file \cup default_domains

\* the file after DomainAllowlistManager.__init__: saved when a default was missing
FileAfterInit ==
    IF default_domains \subseteq allowlist_file
    THEN allowlist_file
    ELSE LoadedAllowlist

\* SecurePage.__init__
NewPage(is_popup, opener) ==
    [popup |-> is_popup, opener |-> opener, alive |-> TRUE,
     allowed_domains |-> LoadedAllowlist,
     session_allowed_domains |-> {},
     suppress_security_dialogs |-> is_popup]

\* the page record after acceptNavigationRequest answered with outcome r
PageAfter(pg, r) ==
    [pg EXCEPT
        !.session_allowed_domains =
            IF r.prompted /\ r.choice = "allow_once"
            THEN allow_domain_once(@, r.domain) ELSE @,
        !.allowed_domains =
            IF r.prompted /\ r.choice = "add_to_allowlist"
            THEN add_domain(@, r.domain) ELSE @]

\* DomainAllowlistManager.save_allowlist as called by add_domain: the whole
\* in-memory set of the page replaces the file
FileAfter(pg, r) ==
    IF /\ r.prompted
       /\ r.choice = "add_to_allowlist"
       /\ add_domain(pg.allowed_domains, r.domain) # pg.allowed_domains
    THEN add_domain(pg.allowed_domains, r.domain)
    ELSE allowlist_file

Decided(r) ==
    IF r.prompted /\ r.choice \in {"allow_once", "add_to_allowlist"} THEN 1 ELSE 0

\* popup_navigation_handler installed by createWindow on popup page pg of
\* page opener: the opener's interceptor and OAuth handler first, then the
\* popup page's own acceptNavigationRequest
popup_navigation_handler(opener, pg, url, is_main_frame, choice, open_ok) ==
    LET sb == should_block_url(opener.allowed_domains,
                               opener.session_allowed_domains, url)
    IN  IF sb.blocked
        THEN Refused(sb, get_domain_from_url(url)) @@ [deleted |-> TRUE]
        ELSE IF should_redirect_to_system_browser(url) /\ open_ok
        THEN [blocked |-> FALSE, reason |-> <<>>,
              domain |-> get_domain_from_url(url), prompted |-> FALSE,
              choice |-> "none", oauth_evaluated |-> TRUE,
              external |-> TRUE, accepted |-> FALSE, deleted |-> TRUE]
        ELSE [acceptNavigationRequest(pg, url, is_main_frame, choice, open_ok)
                EXCEPT !.oauth_evaluated = TRUE] @@ [deleted |-> FALSE]

\* what the callback of page p answers to a request
Answer(p, url, is_main_frame, choice, open_ok) ==
    IF pages[p].popup
    THEN popup_navigation_handler(pages[pages[p].opener], pages[p], url,
                                  is_main_frame, choice, open_ok)
    ELSE acceptNavigationRequest(pages[p], url, is_main_frame, choice, open_ok)
         @@ [deleted |-> FALSE]

\* The inputs a request can meet: a button only when the dialog is shown, a
\* failing external browser only when one is asked for.
ChoicesAt(p, url, is_main_frame) ==
    IF Answer(p, url, is_main_frame, "cancel", TRUE).prompted
    THEN Choices ELSE {"none"}

OpenOutcomes(url) ==
    IF should_redirect_to_system_browser(url) THEN BOOLEAN ELSE {TRUE}

InitNav ==
    /\ allowlist_file \in InitialAllowlistFiles
    /\ pages = <<>>
    /\ allow_count = 0
    /\ workspaces = <<>>
    /\ tab_ops = 0
    /\ last_op = [op |-> "none", w |-> 0]
    /\ window = MainWindow(<<>>, <<>>)
    /\ files = FilesWith(NoFile, <<"\n">>)
    /\ session_manager = SessionManager
    /\ memory_manager = MemoryManager
    /\ clock = 0
    /\ usage = NoUsage
    /\ last_save = NoSave

\* ChatGPTWebView.__init__: a tab gets its own SecurePage
CreatePage ==
    /\ Len(pages) < MaxPages
    /\ pages' = Append(pages, NewPage(FALSE, 0))
    /\ allowlist_file' = FileAfterInit
    /\ UNCHANGED <<allow_count, app_vars>>

\* SecurePage.createWindow on page p
createWindow(p) ==
    /\ Len(pages) < MaxPages
    /\ pages[p].alive
    /\ pages' = Append(pages, NewPage(TRUE, p))
    /\ allowlist_file' = FileAfterInit
    /\ UNCHANGED <<allow_count, app_vars>>

\* what the answer r of page p's callback leaves behind
Respond(p, r) ==
    /\ pages[p].alive
    /\ allow_count + Decided(r) <= MaxAllowDecisions
    /\ pages' = [pages EXCEPT
                    ![p] = [PageAfter(@, r) EXCEPT !.alive = ~r.deleted]]
    /\ allowlist_file' = FileAfter(pages[p], r)
    /\ allow_count' = allow_count + Decided(r)
    /\ UNCHANGED app_vars

\* the engine asks page p and the callback answers
Navigate(p, url, is_main_frame, choice, open_ok) ==
    Respond(p, Answer(p, url, is_main_frame, choice, open_ok))

TabNavigate ==
    \E p \in 1..Len(pages), url \in NavUrls, is_main_frame \in BOOLEAN :
        /\ ~pages[p].popup
        /\ \E choice \in ChoicesAt(p, url, is_main_frame),
              open_ok \in OpenOutcomes(url) :
                Navigate(p, url, is_main_frame, choice, open_ok)

PopupNavigate ==
    \E p \in 1..Len(pages), url \in NavUrls, is_main_frame \in BOOLEAN :
        /\ pages[p].popup
        /\ \E choice \in ChoicesAt(p, url, is_main_frame),
              open_ok \in OpenOutcomes(url) :
                Navigate(p, url, is_main_frame, choice, open_ok)

NextNav ==
    \/ CreatePage
    \/ \E p \in 1..Len(pages) : createWindow(p)
    \/ TabNavigate
    \/ PopupNavigate

(***************************************************************************)
(* The tab model                                                           *)
(***************************************************************************)
\* Bound of the tab model
MaxTabOps == 3

\* URLs a page can go to
PageUrls ==
    {CHATGPT_URL, "https://chatgpt.com/c/1"}

\* n stored tabs, on alternating URLs
StoredTabs(n) ==
    [i \in 1..n |->
        [url |-> IF i % 2 = 1 THEN "https://chatgpt.com/c/1" ELSE CHATGPT_URL,
         title |-> "ChatGPT"]]

\* The session files the application starts from: none; one with workspaces
\* at, just below and beyond the tab limit and one without tabs; one with
\* workspaces missing and a negative id; one with an id beyond the names;
\* one with a key that is no number.
SessionFiles ==
    {[exists |-> FALSE, readable |-> FALSE, content |-> <<>>],
     [exists |-> TRUE, readable |-> TRUE,
      content |-> (<<"0">> :> [tabs |-> StoredTabs(15), active_tab |-> 14]) @@
                  (<<"1">> :> [tabs |-> StoredTabs(14), active_tab |-> 3]) @@
                  (<<"2">> :> [tabs |-> StoredTabs(16), active_tab |-> 20]) @@
                  (<<"3">> :> [tabs |-> StoredTabs(0), active_tab |-> 5])],
     [exists |-> TRUE, readable |-> TRUE,
      content |-> (<<"2">> :> [tabs |-> StoredTabs(2), active_tab |-> 1]) @@
                  (<<"-", "1">> :> [tabs |-> StoredTabs(1), active_tab |-> -2])],
     [exists |-> TRUE, readable |-> TRUE,
      content |-> (<<"0">> :> [tabs |-> StoredTabs(2), active_tab |-> 1]) @@
                  (<<"7">> :> [tabs |-> StoredTabs(1), active_tab |-> 0])],
     [exists |-> TRUE, readable |-> TRUE,
      content |-> (<<"x">> :> [tabs |-> StoredTabs(3), active_tab |-> 0])]}

InitTabs ==
    /\ \E file \in SessionFiles : StartedFrom(FilesWith(file, <<"\n">>))
    /\ NoPages

\* tab operation op turns workspace w into ws
TabOp(op, w, ws) ==
    /\ tab_ops < MaxTabOps
    /\ tab_ops' = tab_ops + 1
    /\ last_op' = [op |-> op, w |-> w]
    /\ workspaces' = [workspaces EXCEPT ![w] = [ws EXCEPT !.session_changed = FALSE]]
    /\ window' = mark_session_dirty(window, ws.session_changed)
    /\ UNCHANGED <<nav_vars, store_vars, memory_vars>>

\* the new-tab command
NewTab ==
    \E w \in DOMAIN workspaces : TabOp("new_tab", w, new_tab(workspaces[w]))

\* MainWindow.close_current_tab, the caller of close_tab
CloseCurrentTab ==
    \E w \in DOMAIN workspaces :
        TabOp("close_tab", w, close_tab(workspaces[w], workspaces[w].tab_widget.currentIndex))

\* the restore-closed-tab command
RestoreLastClosedTab ==
    \E w \in DOMAIN workspaces : TabOp("restore_last_closed_tab", w, restore_last_closed_tab(workspaces[w]))

\* MainWindow.next_tab and previous_tab
SwitchTab ==
    \E w \in DOMAIN workspaces, step \in {-1, 1} :
        TabOp("setCurrentIndex", w, setCurrentIndex(workspaces[w],
                    (workspaces[w].tab_widget.currentIndex + step)
                        % count(workspaces[w])))

\* the page of the current tab goes to another URL
UrlChanged ==
    \E w \in DOMAIN workspaces, url \in PageUrls :
        /\ url # workspaces[w].views[
                    workspaces[w].tab_widget.tabs[
                        workspaces[w].tab_widget.currentIndex + 1].view].url
        /\ TabOp("url_changed", w, update_url_for_view(workspaces[w],
                        workspaces[w].tab_widget.tabs[
                            workspaces[w].tab_widget.currentIndex + 1].view, url))

\* the page of the current tab opens a popup
OpenPopup ==
    \E w \in DOMAIN workspaces :
        TabOp("createWindow", w, create_popup(workspaces[w],
                    workspaces[w].tab_widget.tabs[
                        workspaces[w].tab_widget.currentIndex + 1].view))

NextTabs ==
    \/ NewTab
    \/ CloseCurrentTab
    \/ RestoreLastClosedTab
    \/ SwitchTab
    \/ UrlChanged
    \/ OpenPopup

(***************************************************************************)
(* The model of the recently-closed list: the window stays on workspace 0  *)
(* (MainWindow.current_workspace after construction) and the user closes   *)
(* the current tab and reopens closed tabs                                 *)
(***************************************************************************)
\* Bound of the model of the recently-closed list
MaxClosedTabOps == 12

\* the URLs of the tabs the session file of this model stores
ConversationUrls ==
    <<"https://chatgpt.com/c/a", "https://chatgpt.com/c/b",
      "https://chatgpt.com/c/c", "https://chatgpt.com/c/d",
      "https://chatgpt.com/c/e", "https://chatgpt.com/c/f",
      "https://chatgpt.com/c/g", "https://chatgpt.com/c/h",
      "https://chatgpt.com/c/i", "https://chatgpt.com/c/j",
      "https://chatgpt.com/c/k", "https://chatgpt.com/c/l",
      "https://chatgpt.com/c/m">>

\* a session file whose workspace 0 stores the first n of these URLs
ConversationsFile(n) ==
    [exists |-> TRUE, readable |-> TRUE,
     content |-> (<<"0">> :> [tabs |-> [i \in 1..n |->
                                          [url |-> ConversationUrls[i],
                                           title |-> "ChatGPT"]],
                              active_tab |-> 0])]

InitClosedTabs ==
    /\ \E n \in {12, 13} : StartedFrom(FilesWith(ConversationsFile(n), <<"\n">>))
    /\ NoPages

\* a tab command of the window, which stays on workspace 0, or an event of
\* a page of workspace 0, while fewer than bound of them happened
WindowTabOp(bound, op, ws) ==
    /\ tab_ops < bound
    /\ tab_ops' = tab_ops + 1
    /\ last_op' = [op |-> op, w |-> 0]
    /\ workspaces' = [workspaces EXCEPT ![0] = [ws EXCEPT !.session_changed = FALSE]]
    /\ window' = mark_session_dirty(window, ws.session_changed)
    /\ UNCHANGED <<nav_vars, store_vars, memory_vars>>

CurrentTabOp(op, ws) ==
    WindowTabOp(MaxClosedTabOps, op, ws)

\* MainWindow.close_current_tab
CloseCurrentTabOfWindow ==
    CurrentTabOp("close_tab",
                 close_tab(workspaces[0], workspaces[0].tab_widget.currentIndex))

\* MainWindow.restore_last_closed_tab
RestoreLastClosedTabOfWindow ==
    CurrentTabOp("restore_last_closed_tab",
                 restore_last_closed_tab(workspaces[0]))

NextClosedTabs ==
    \/ CloseCurrentTabOfWindow
    \/ RestoreLastClosedTabOfWindow

(***************************************************************************)
(* The model of the tabs of the current workspace: the window stays on     *)
(* workspace 0, the user opens, closes, restores and selects tabs, and the *)
(* pages of the workspace, those of closed tabs included, report titles    *)
(* and URLs                                                                *)
(***************************************************************************)
\* Bound of the model of the tabs of the current workspace
MaxWindowTabOps == 4

InitWindowTabs ==
    /\ \E n \in {1, 3} : StartedFrom(FilesWith(ConversationsFile(n), <<"\n">>))
    /\ NoPages

\* MainWindow.new_tab
WindowNewTab ==
    WindowTabOp(MaxWindowTabOps, "new_tab", new_tab(workspaces[0]))

\* MainWindow.close_current_tab
WindowCloseCurrentTab ==
    WindowTabOp(MaxWindowTabOps, "close_tab",
                close_tab(workspaces[0], workspaces[0].tab_widget.currentIndex))

\* MainWindow.restore_last_closed_tab
WindowRestoreLastClosedTab ==
    WindowTabOp(MaxWindowTabOps, "restore_last_closed_tab",
                restore_last_closed_tab(workspaces[0]))

\* MainWindow.next_tab
WindowNextTab ==
    WindowTabOp(MaxWindowTabOps, "next_tab",
                setCurrentIndex(workspaces[0],
                    (workspaces[0].tab_widget.currentIndex + 1)
                        % count(workspaces[0])))

\* MainWindow.previous_tab
WindowPreviousTab ==
    WindowTabOp(MaxWindowTabOps, "previous_tab",
                setCurrentIndex(workspaces[0],
                    (workspaces[0].tab_widget.currentIndex - 1)
                        % count(workspaces[0])))

\* the user clicks a tab of the bar: QTabWidget makes it the current one
SelectTab ==
    \E index \in 0..(count(workspaces[0]) - 1) :
        WindowTabOp(MaxWindowTabOps, "select_tab",
                    setCurrentIndex(workspaces[0], index))

\* titleChanged of the page of a view, which may belong to a closed tab
TitleChanged ==
    \E view \in 1..Len(workspaces[0].views), title \in Titles :
        WindowTabOp(MaxWindowTabOps, "title_changed",
                    update_title_for_view(workspaces[0], view, title))

\* url_changed of a view, which may belong to a closed tab
UrlChangedOfView ==
    \E view \in 1..Len(workspaces[0].views) :
        WindowTabOp(MaxWindowTabOps, "url_changed",
                    on_url_changed(workspaces[0], view, CHATGPT_URL))

NextWindowTabs ==
    \/ WindowNewTab
    \/ WindowCloseCurrentTab
    \/ WindowRestoreLastClosedTab
    \/ WindowNextTab
    \/ WindowPreviousTab
    \/ SelectTab
    \/ TitleChanged
    \/ UrlChangedOfView

(***************************************************************************)
(* The model of the session store: snapshots are saved, on a disk that may *)
(* fail, by a SessionManager that a restart replaces by a new one          *)
(***************************************************************************)
\* Bound of the model of the session store
MaxSaves == 3

\* workspace records to save: with two tabs, a note of two lines and the
\* notepad shown; with a note of one line; with a note whose lines end in
\* "\r\n"; with a note holding a lone "\r"
TwoTabsTwoLines ==
    [name |-> "Research",
     tabs |-> <<[url |-> "https://chatgpt.com/c/1", title |-> "New chat"],
                DefaultTab>>,
     active_tab |-> 1,
     notepad_content |-> <<"a", "\n", "b">>,
     notepad_visible |-> TRUE]

OneLine ==
    [name |-> "Workspace 2",
     tabs |-> <<DefaultTab>>,
     active_tab |-> 0,
     notepad_content |-> <<"t", "o", "d", "o">>,
     notepad_visible |-> FALSE]

CarriageReturnLines ==
    [name |-> "Workspace 3",
     tabs |-> <<DefaultTab>>,
     active_tab |-> 0,
     notepad_content |-> <<"a", "\r", "\n", "b">>,
     notepad_visible |-> TRUE]

LoneCarriageReturn ==
    [OneLine EXCEPT !.notepad_content = <<"a", "\r", "b">>]

\* the default workspaces with the records of changes put in
DefaultsWith(changes) ==
    [i \in 0..(NUM_WORKSPACES - 1) |->
        IF i \in DOMAIN changes THEN changes[i] ELSE DefaultWorkspaceData(i)]

\* the snapshots saved in this model: maps over 0..3 whose workspaces have a
\* tab and an active tab in range
Snapshots ==
    {DefaultsWith(<<>>),
     DefaultsWith(0 :> TwoTabsTwoLines),
     DefaultsWith((0 :> TwoTabsTwoLines) @@ (1 :> OneLine)),
     DefaultsWith((0 :> [TwoTabsTwoLines EXCEPT !.active_tab = 0])
                    @@ (1 :> OneLine)),
     DefaultsWith(2 :> CarriageReturnLines),
     DefaultsWith(1 :> LoneCarriageReturn)}

InitStore ==
    /\ \E linesep \in Platforms : StartedFrom(FilesWith(NoFile, linesep))
    /\ NoPages

\* the state after save_sessions, called at current_time, left r
Saved(r, workspaces_data, current_time) ==
    /\ session_manager' = r.session_manager
    /\ files' = r.files
    /\ clock' = current_time
    /\ last_save' = [called |-> TRUE,
                     ok |-> ~r.raised,
                     workspaces |-> workspaces_data,
                     files_written |-> r.files_written,
                     repeated |-> /\ last_save.ok
                                  /\ last_save.same_manager
                                  /\ last_save.workspaces = workspaces_data,
                     same_manager |-> TRUE,
                     saves |-> last_save.saves + 1,
                     failed |-> last_save.failed
                                    + (IF r.raised THEN 1 ELSE 0)]

\* SessionManager.save_sessions of a snapshot, a second after the latest call
Save ==
    \E workspaces_data \in Snapshots, io \in IOOutcomes :
        /\ last_save.saves < MaxSaves
        /\ Saved(save_sessions(session_manager, files, workspaces_data,
                               clock + 1, io),
                 workspaces_data, clock + 1)
        /\ UNCHANGED <<nav_vars, workspaces, tab_ops, last_op, window,
                       memory_manager, usage>>

\* the application is started again: SessionManager.__init__
NewSessionManager ==
    /\ last_save.same_manager
    /\ session_manager' = SessionManager
    /\ last_save' = [last_save EXCEPT !.same_manager = FALSE]
    /\ UNCHANGED <<nav_vars, workspaces, tab_ops, last_op, window, files,
                   memory_vars>>

NextStore ==
    \/ Save
    \/ NewSessionManager

(***************************************************************************)
(* The model of the memory manager: the cleanup timer ticks and the user   *)
(* switches workspaces                                                     *)
(***************************************************************************)
\* Bounds of the model of the memory manager: the ticks of the cleanup timer
\* and the workspace switches
MaxTicks == 6
MaxSwitches == 3

\* the seconds between two ticks of the cleanup timer
CheckIntervalSeconds ==
    CHECK_INTERVAL_MS \div 1000

\* a session file the application wrote: workspace 1 has two conversations
\* and its notepad is shown
TwoConversationsFile ==
    [exists |-> TRUE, readable |-> TRUE,
     content |->
        [key \in {<<"0">>, <<"1">>, <<"2">>, <<"3">>} |->
            IF key = <<"1">>
            THEN [name |-> "Research", tabs |-> StoredTabs(2),
                  active_tab |-> 1, notepad_visible |-> TRUE]
            ELSE [name |-> DEFAULT_WORKSPACE_NAMES[int_of(key) + 1],
                  tabs |-> <<DefaultTab>>,
                  active_tab |-> 0, notepad_visible |-> FALSE]]]

InitMemory ==
    /\ \E file \in {NoFile, TwoConversationsFile} :
            StartedFrom(FilesWith(file, <<"\n">>))
    /\ NoPages

\* the application, of the state
App ==
    [workspaces |-> workspaces,
     window |-> window,
     memory_manager |-> memory_manager,
     session_manager |-> session_manager,
     files |-> files,
     restores |-> 0]

\* the state takes the application app
Became(app) ==
    /\ workspaces' = app.workspaces
    /\ window' = app.window
    /\ memory_manager' = app.memory_manager
    /\ session_manager' = app.session_manager
    /\ files' = app.files

\* the state after switch_workspace(workspace_id) left app
Switched(app, workspace_id) ==
    /\ Became(app)
    /\ last_op' = [op |-> "switch_workspace", w |-> workspace_id]
    /\ usage' = [usage EXCEPT
                    !.activated_at[workspace_id] = clock,
                    !.left_at[window.current_workspace] = clock,
                    !.was_compressed =
                        workspace_id \in memory_manager.compressed_workspaces,
                    !.restores = app.restores,
                    !.switches = @ + 1]

\* a workspace shortcut: MainWindow.switch_workspace of another workspace
SwitchWorkspace ==
    \E workspace_id \in 0..(NUM_WORKSPACES - 1), io \in IOOutcomes :
        /\ usage.switches < MaxSwitches
        /\ workspace_id # window.current_workspace
        /\ Switched(switch_workspace(App, workspace_id, clock, io),
                    workspace_id)
        /\ UNCHANGED <<nav_vars, tab_ops, last_save, clock>>

\* the state after _cleanup_unused_memory at current_time left app
Ticked(app, current_time) ==
    /\ Became(app)
    /\ clock' = current_time
    /\ last_op' = [op |-> "tick", w |-> 0]
    /\ usage' = [usage EXCEPT
                    !.compressed_at =
                        [i \in DOMAIN @ |->
                            IF i \in app.memory_manager.compressed_workspaces
                                      \ memory_manager.compressed_workspaces
                            THEN current_time ELSE @[i]]]

\* cleanup_timer.timeout: MemoryManager._cleanup_unused_memory, a check
\* interval after the tick before
Tick ==
    /\ clock < MaxTicks * CheckIntervalSeconds
    /\ Ticked(cleanup_unused_memory(App, clock + CheckIntervalSeconds),
              clock + CheckIntervalSeconds)
    /\ UNCHANGED <<nav_vars, tab_ops, last_save>>

NextMemory ==
    \/ SwitchWorkspace
    \/ Tick

(***************************************************************************)
(* The model of saving: the user selects tabs and edits the note of the    *)
(* current workspace, the autosave timer fires on a disk that may fail,    *)
(* and the window is closed                                                *)
(***************************************************************************)
\* Bound of the model of saving: the steps before the window is closed
MaxWindowOps == 6

\* a session file the application wrote: workspace 0 has two conversations
\* and its notepad is shown
ShownNotepadFile ==
    [exists |-> TRUE, readable |-> TRUE,
     content |->
        [key \in {<<"0">>, <<"1">>, <<"2">>, <<"3">>} |->
            IF key = <<"0">>
            THEN [name |-> "Research", tabs |-> StoredTabs(2),
                  active_tab |-> 0, notepad_visible |-> TRUE]
            ELSE [name |-> DEFAULT_WORKSPACE_NAMES[int_of(key) + 1],
                  tabs |-> <<DefaultTab>>,
                  active_tab |-> 0, notepad_visible |-> FALSE]]]

\* the texts the user leaves in the notepad
NoteTexts ==
    {<<"t", "o", "d", "o">>, <<>>}

InitSave ==
    /\ StartedFrom(FilesWith(ShownNotepadFile, <<"\n">>))
    /\ NoPages

\* a disk that does not fail
NoFailure ==
    [fails |-> "nothing", id |-> 0]

\* a step of the window that is not closed
WindowOp(op, io) ==
    /\ tab_ops < MaxWindowOps
    /\ window.close_event = <<>>
    /\ ~window.close_raised
    /\ tab_ops' = tab_ops + 1
    /\ last_op' = [op |-> op, w |-> window.current_workspace, io |-> io]
    /\ UNCHANGED <<nav_vars, usage>>

\* the current workspace becomes ws
CurrentWorkspaceOp(op, ws) ==
    /\ WindowOp(op, NoFailure)
    /\ Became(with_workspace(App, window.current_workspace, ws))
    /\ UNCHANGED <<clock, last_save>>

\* MainWindow.next_tab
SaveNextTab ==
    CurrentWorkspaceOp("next_tab",
        setCurrentIndex(workspaces[window.current_workspace],
            (workspaces[window.current_workspace].tab_widget.currentIndex + 1)
                % count(workspaces[window.current_workspace])))

\* MainWindow.previous_tab
SavePreviousTab ==
    CurrentWorkspaceOp("previous_tab",
        setCurrentIndex(workspaces[window.current_workspace],
            (workspaces[window.current_workspace].tab_widget.currentIndex - 1)
                % count(workspaces[window.current_workspace])))

\* the user edits the note of the current workspace, whose notepad shows
EditNote ==
    \E text \in NoteTexts :
        /\ notepad_isVisible(window, window.current_workspace)
        /\ text # window.notepads[window.current_workspace].content
        /\ WindowOp("text_changed", NoFailure)
        /\ window' = text_changed(window, text)
        /\ UNCHANGED <<workspaces, store_vars, memory_vars>>

\* the record of a call of MainWindow.save_sessions that found the flags
\* dirty and whose SessionManager.save_sessions left r
SavedByWindow(dirty, r, workspaces_data) ==
    [last_save EXCEPT
        !.called = dirty,
        !.ok = dirty /\ ~r.raised,
        !.workspaces = IF dirty THEN workspaces_data ELSE @,
        !.files_written = IF dirty THEN r.files_written ELSE 0,
        !.same_manager = TRUE,
        !.saves = @ + (IF dirty THEN 1 ELSE 0),
        !.failed = @ + (IF dirty /\ r.raised THEN 1 ELSE 0)]

\* the call of MainWindow.save_sessions at current_time is recorded
WindowSaveRecorded(current_time, io) ==
    last_save' =
        SavedByWindow(window.session_dirty \/ window.notepad_dirty,
                      save_sessions(session_manager, files,
                                    window_snapshot(App), current_time, io),
                      window_snapshot(App))

\* autosave_timer.timeout: MainWindow.save_sessions
Autosave ==
    \E io \in IOOutcomes :
        /\ WindowOp("autosave", io)
        /\ Became(window_save_sessions(App, clock + 1, io))
        /\ clock' = clock + 1
        /\ WindowSaveRecorded(clock + 1, io)

\* the user closes the window: MainWindow.closeEvent
CloseWindow ==
    \E io \in IOOutcomes :
        /\ WindowOp("closeEvent", io)
        /\ Became(closeEvent(App, clock + 1, io))
        /\ clock' = clock + 1
        /\ IF some_notepad_has_changes(window)
           THEN UNCHANGED last_save
           ELSE WindowSaveRecorded(clock + 1, io)

NextSave ==
    \/ SaveNextTab
    \/ SavePreviousTab
    \/ EditNote
    \/ Autosave
    \/ CloseWindow

(***************************************************************************)
(* The model of loading: the application starts on the files it finds      *)
(***************************************************************************)
\* the records a session file holds for a workspace: complete, with the
\* active tab beyond the tabs, without tabs, with a tab entry that lacks
\* its url, and with an active_tab that is no number
StoredRecords ==
    {[name |-> "Research", tabs |-> StoredTabs(2), active_tab |-> 1,
      notepad_visible |-> TRUE],
     [name |-> "Notes", tabs |-> StoredTabs(3), active_tab |-> 7,
      notepad_visible |-> FALSE],
     [tabs |-> <<>>, active_tab |-> -1],
     [name |-> "Research", tabs |-> <<[title |-> "New chat"]>>,
      active_tab |-> 0, notepad_visible |-> TRUE],
     [name |-> "Research", tabs |-> StoredTabs(2), active_tab |-> 0,
      notepad_visible |-> TRUE, wrong_type |-> {"active_tab"}]}

\* the session files with records for a subset of the workspaces 0..3
SubsetFiles ==
    UNION {[{str_of_int(i) : i \in ids} -> StoredRecords] :
                ids \in SUBSET (0..(NUM_WORKSPACES - 1))}

\* session files with a record under a key beyond 0..3, next to a complete
\* record of workspace 0
OutsideKeys ==
    {<<"4">>, <<"7">>, <<"-", "1">>, <<"-", "5">>, <<"x">>}

\* the persisted session files: none, one that is no JSON, and files that
\* hold records
PersistedSessionFiles ==
    {NoFile, [exists |-> TRUE, readable |-> FALSE, content |-> <<>>]}
        \cup {[exists |-> TRUE, readable |-> TRUE, content |-> content] :
                    content \in SubsetFiles}
        \cup {[exists |-> TRUE, readable |-> TRUE,
               content |-> (<<"0">> :> [name |-> "Research",
                                        tabs |-> StoredTabs(2),
                                        active_tab |-> 1,
                                        notepad_visible |-> TRUE])
                            @@ (key :> [tabs |-> StoredTabs(1),
                                        active_tab |-> 0])] :
                    key \in OutsideKeys}

\* the notepad files: none, or one of two lines for every workspace
PersistedNotepadFiles ==
    {[i \in WorkspaceDirs |-> NoFile],
     [i \in WorkspaceDirs |->
        [exists |-> TRUE, readable |-> TRUE,
         content |-> <<"a", "\n", "b">>]]}

\* the application is not started: the files are there
InitLoad ==
    /\ \E file \in PersistedSessionFiles, notes \in PersistedNotepadFiles :
            files = [session_file |-> file, notepad_files |-> notes,
                     linesep |-> <<"\n">>]
    /\ workspaces = <<>>
    /\ window = MainWindow(<<>>, <<>>)
    /\ session_manager = SessionManager
    /\ memory_manager = MemoryManager
    /\ clock = 0
    /\ usage = NoUsage
    /\ last_save = NoSave
    /\ tab_ops = 0
    /\ last_op = [op |-> "none", w |-> 0]
    /\ NoPages

\* MainWindow.load_sessions at the start of the application
LoadSessions ==
    /\ last_op.op = "none"
    /\ workspaces' = WorkspacesOf(load_sessions(files))
    /\ window' = MainWindow(load_sessions(files), load_order(files))
    /\ last_op' = [op |-> "load_sessions", w |-> 0]
    /\ UNCHANGED <<nav_vars, tab_ops, store_vars, memory_vars>>

NextLoad ==
    LoadSessions

(***************************************************************************)
(* Specifications                                                          *)
(***************************************************************************)
SpecNav ==
    InitNav /\ [][NextNav]_vars

SpecTabs ==
    InitTabs /\ [][NextTabs]_vars


SpecClosedTabs ==
    InitClosedTabs /\ [][NextClosedTabs]_vars

SpecWindowTabs ==
    InitWindowTabs /\ [][NextWindowTabs]_vars

SpecStore ==
    InitStore /\ [][NextStore]_vars

SpecMemory ==
    InitMemory /\ [][NextMemory]_vars

SpecLoad ==
    InitLoad /\ [][NextLoad]_vars

SpecSave ==
    InitSave /\ [][NextSave]_vars
(***************************************************************************)
(* Vocabulary of the claims about navigation                               *)
(***************************************************************************)
\* the reason kind a reason text stands for
ReasonKind(reason) ==
    IF reason = <<>> THEN "None"
    ELSE IF /\ StartsWith(reason, R_Scheme_open)
            /\ EndsWith(reason, R_not_allowed_close)
    THEN "SchemeNotAllowed"
    ELSE IF reason = R_Internal_pages THEN "InternalPageBlocked"
    ELSE IF /\ StartsWith(reason, R_Domain_open)
            /\ EndsWith(reason, R_not_in_allowlist_close)
    THEN "DomainNotAllowlisted"
    ELSE "InvalidFormat"

\* the last position of character c in s, 0 when absent
LastOf(s, c) ==
    IF \E i \in 1..Len(s) : s[i] = c
    THEN CHOOSE i \in 1..Len(s) : s[i] = c /\ \A j \in (i + 1)..Len(s) : s[j] # c
    ELSE 0

\* an authority without its trailing ":<digits>"
WithoutPort(hostport) ==
    IF /\ LastOf(hostport, ":") > 0
       /\ \A j \in (LastOf(hostport, ":") + 1)..Len(hostport) : hostport[j] \in Digits
    THEN SubSeq(hostport, 1, LastOf(hostport, ":") - 1)
    ELSE hostport

\* the hostname of a URL: its authority with userinfo and trailing port
\* removed, in lower case
Hostname(url) ==
    WithoutPort(From(Lower(Netloc(url)), LastOf(Lower(Netloc(url)), "@") + 1))

HostnameOf ==
    [url \in NavUrls |-> Hostname(url)]

\* the scheme of a URL: the text before its first ":", in lower case
SchemeOf ==
    [url \in NavUrls |->
        IF Find(url, ":") = 0 THEN <<>> ELSE Lower(BeforeFirst(url, ":"))]

\* the navigation targets that have a scheme
UrlsWithScheme ==
    {url \in NavUrls : Find(url, ":") # 0}

\* the well-formed http and https navigation targets
HttpUrls ==
    {url \in NavUrls : SchemeOf[url] \in {S_http, S_https} /\ ~UrlParseRaisesOf[url]}

\* host is an entry, or ends with "." followed by an entry
HostMatches(host, entries) ==
    \/ host \in entries
    \/ \E entry \in entries : EndsWith(host, <<".">> \o entry)

LivePages ==
    {p \in 1..Len(pages) : pages[p].alive}

LiveTabs ==
    {p \in LivePages : ~pages[p].popup}

\* a blocked request is accepted only on the user's Allow-Once or Always-Allow
AcceptedOnlyOnConsent(r) ==
    r.blocked /\ r.accepted =>
        r.prompted /\ r.choice \in {"allow_once", "add_to_allowlist"}

\* should_block_url of page p's interceptor decides an http(s) URL by its hostname
DecidedByHostname(p, url, sb) ==
    /\ ~sb.blocked <=>
         HostMatches(HostnameOf[url],
                     pages[p].allowed_domains \cup pages[p].session_allowed_domains)
    /\ sb.blocked => ReasonKind(sb.reason) = "DomainNotAllowlisted"

\* should_block_url's answer sb to a URL with a scheme other than http and
\* https, and to an about: URL
DecidedByScheme(url, sb) ==
    /\ SchemeOf[url] \notin {S_http, S_https, S_about} =>
         sb.blocked /\ ReasonKind(sb.reason) = "SchemeNotAllowed"
    /\ SchemeOf[url] = S_about /\ url # U_about_blank =>
         sb.blocked /\ ReasonKind(sb.reason) = "InternalPageBlocked"

\* the dialog is shown exactly for a top-level DomainNotAllowlisted request
\* of a page that is no popup
PromptedAsSpecified(p, is_main_frame, r) ==
    r.prompted <=>
        /\ ReasonKind(r.reason) = "DomainNotAllowlisted"
        /\ is_main_frame
        /\ ~pages[p].popup

NeitherBlockedNorPrompted(r) ==
    ~r.blocked /\ ~r.prompted

(***************************************************************************)
(* Claims about navigation, properties of SpecNav                          *)
(***************************************************************************)
\* C1: whenever a tab's or popup's callback answers a request for a URL that
\* should_block_url reports blocked, the request is accepted only if the
\* dialog was shown for it and the user chose Allow-Once or Always-Allow.
C1_BlockedAcceptedOnlyOnConsent ==
    \A p \in LivePages, url \in NavUrls, is_main_frame \in BOOLEAN :
        \A choice \in ChoicesAt(p, url, is_main_frame), open_ok \in BOOLEAN :
            AcceptedOnlyOnConsent(Answer(p, url, is_main_frame, choice, open_ok))

\* C2: for every well-formed http or https URL and every allowlist and
\* session set a page holds, should_block_url answers not blocked exactly
\* when the URL's hostname equals or dot-suffix-matches an entry, and
\* otherwise blocks with a DomainNotAllowlisted reason.
C2_HostnameDecides ==
    \A p \in 1..Len(pages), url \in HttpUrls :
        DecidedByHostname(p, url,
            should_block_url(pages[p].allowed_domains,
                             pages[p].session_allowed_domains, url))

\* C3: every URL whose scheme is not http, https or about is blocked as
\* SchemeNotAllowed, and every about: URL other than the literal about:blank
\* is blocked as InternalPageBlocked, whatever the page's sets hold.
C3_SchemeThenInternalPage ==
    \A p \in 1..Len(pages), url \in UrlsWithScheme :
        DecidedByScheme(url,
            should_block_url(pages[p].allowed_domains,
                             pages[p].session_allowed_domains, url))

\* C4: should_block_url("about:blank") answers not blocked, with an empty
\* reason, in every state of a page's allowlist and session set.
C4_AboutBlankNotBlocked ==
    \A p \in 1..Len(pages) :
        should_block_url(pages[p].allowed_domains,
                         pages[p].session_allowed_domains, U_about_blank)
            = [blocked |-> FALSE, reason |-> <<>>]

\* C5: while a request is answered the dialog is shown if and only if the
\* reason is DomainNotAllowlisted, the request is for the top-level frame
\* and the page is not a popup.
C5_PromptIffDomainNotAllowlisted ==
    \A p \in LivePages, url \in NavUrls, is_main_frame \in BOOLEAN :
        PromptedAsSpecified(p, is_main_frame,
            Answer(p, url, is_main_frame, "cancel", TRUE))

KeptInContext(url, r) ==
    (~r.blocked /\ should_redirect_to_system_browser(url)) =>
        (r.accepted /\ ~r.external)

\* C27: every top-level navigation that passed the security check and
\* matches the OAuth predicate is allowed by the callback in the embedded
\* context, and nothing is opened in an external browser.
C27_OAuthStaysEmbedded ==
    \A p \in LivePages, url \in NavUrls :
        \A choice \in ChoicesAt(p, url, TRUE), open_ok \in OpenOutcomes(url) :
            KeptInContext(url, Answer(p, url, TRUE, choice, open_ok))

\* the answer r to a request for url hands an identity-provider flow to the
\* system browser and refuses it in the page, and accepts it in the page
\* only when the system browser could not be opened
ExternalUnlessOpenFails(url, open_ok, r) ==
    (~r.blocked /\ should_redirect_to_system_browser(url)) =>
        (r.external = open_ok /\ r.accepted = ~open_ok)

OAuthGoesExternal ==
    \A p \in LivePages, url \in NavUrls :
        \A choice \in ChoicesAt(p, url, TRUE), open_ok \in OpenOutcomes(url) :
            ExternalUnlessOpenFails(url, open_ok, Answer(p, url, TRUE, choice, open_ok))

\* the verdict of the should_block_url call that opens the callback of page
\* p: the page's own interceptor in a tab, the opener's in a popup
FirstVerdict(p, url) ==
    IF pages[p].popup
    THEN should_block_url(pages[pages[p].opener].allowed_domains,
                          pages[pages[p].opener].session_allowed_domains, url)
    ELSE should_block_url(pages[p].allowed_domains,
                          pages[p].session_allowed_domains, url)

\* the OAuth policy was consulted for answer r only for a top-level request
\* that should_block_url reported not blocked
EvaluatedAsSpecified(sb, is_main_frame, r) ==
    r.oauth_evaluated => (~sb.blocked /\ is_main_frame)

\* C28: for every navigation request, in a tab or in a popup, the OAuth
\* policy is evaluated only after should_block_url reported the URL not
\* blocked and only for the top-level frame; never for a blocked request
\* and never for a sub-frame request.
C28_OAuthOnlyAfterSecurityOnTopLevel ==
    \A p \in LivePages, url \in NavUrls, is_main_frame \in BOOLEAN :
        \A choice \in ChoicesAt(p, url, is_main_frame), open_ok \in OpenOutcomes(url) :
            EvaluatedAsSpecified(FirstVerdict(p, url), is_main_frame,
                                 Answer(p, url, is_main_frame, choice, open_ok))

\* for a URL with a host: in a tab the OAuth policy is consulted exactly for
\* the top-level requests that were not blocked; in a popup for every request
\* that was not blocked by the opener's interceptor, sub-frame requests
\* included
EvaluatedAsCoded(p, sb, is_main_frame, r) ==
    r.oauth_evaluated = (~sb.blocked /\ (is_main_frame \/ pages[p].popup))

UrlsWithDomain ==
    {url \in NavUrls : get_domain_from_url(url) # <<>>}

OAuthEvaluatedInPopupSubFrames ==
    \A p \in LivePages, url \in UrlsWithDomain, is_main_frame \in BOOLEAN :
        \A choice \in ChoicesAt(p, url, is_main_frame), open_ok \in OpenOutcomes(url) :
            EvaluatedAsCoded(p, FirstVerdict(p, url), is_main_frame,
                             Answer(p, url, is_main_frame, choice, open_ok))
(***************************************************************************)
(* Claims about tabs and profiles, properties of SpecTabs                  *)
(***************************************************************************)
\* every view and every popup page of the workspace is on the workspace's profile
BoundToWorkspaceProfile(ws) ==
    /\ \A v \in 1..Len(ws.views) : ws.views[v].profile = ws.workspace_profile
    /\ \A k \in 1..Len(ws.popups) : ws.popups[k].profile = ws.workspace_profile

\* C8: every browsing context created in a workspace (restored tab, new tab,
\* restored closed tab, popup of one of its pages) is bound to that
\* workspace's profile, and the profiles of two different workspaces differ
\* in name and in storage path.
C8_ProfilePerWorkspace ==
    /\ \A w \in DOMAIN workspaces : BoundToWorkspaceProfile(workspaces[w])
    /\ \A w1, w2 \in DOMAIN workspaces :
          w1 # w2 =>
            /\ workspaces[w1].workspace_profile.name
                 # workspaces[w2].workspace_profile.name
            /\ workspaces[w1].workspace_profile.storage_path
                 # workspaces[w2].workspace_profile.storage_path

\* a workspace with a popup, whose only closed tab was reopened, beside the
\* other workspaces
C8_Witness ==
    \E w \in DOMAIN workspaces :
        /\ workspaces[w].popups # <<>>
        /\ workspaces[w].closed_tabs = <<>>
        /\ \E v \in 1..Len(workspaces[w].views) : workspaces[w].views[v].deleted
        /\ Len(workspaces[w].web_views) >= 2
        /\ Cardinality(DOMAIN workspaces) > 1

\* the tab bar holds a tab, and every tab shows a view that is not deleted
HasLiveTab(ws) ==
    /\ count(ws) >= 1
    /\ Len(ws.web_views) >= 1
    /\ \A i \in 1..count(ws) : ~ws.views[ws.tab_widget.tabs[i].view].deleted

\* the tab list, the active index and the list of closed tabs are the same
SameTabsActiveAndClosed(ws, after) ==
    /\ after.tab_widget = ws.tab_widget
    /\ after.web_views = ws.web_views
    /\ after.workspace_data.active_tab = ws.workspace_data.active_tab
    /\ after.closed_tabs = ws.closed_tabs

\* C9: every workspace has at least one live tab, and close_tab on a
\* workspace with exactly one tab leaves the tab list, the active index and
\* the list of closed tabs as they are.
C9_LastTabStays ==
    \A w \in DOMAIN workspaces :
        /\ HasLiveTab(workspaces[w])
        /\ count(workspaces[w]) = 1 =>
             \A index \in -1..1 :
                SameTabsActiveAndClosed(workspaces[w],
                                        close_tab(workspaces[w], index))

\* close_tab was just called on a workspace that never had a second view
C9_Witness ==
    /\ last_op.op = "close_tab"
    /\ count(workspaces[last_op.w]) = 1
    /\ Len(workspaces[last_op.w].views) = 1

\* the tab list and the active index are the same
SameTabsAndActive(ws, after) ==
    /\ after.tab_widget = ws.tab_widget
    /\ after.web_views = ws.web_views
    /\ after.views = ws.views
    /\ after.workspace_data.active_tab = ws.workspace_data.active_tab

\* C10: a workspace never has more than 15 live tabs; add_tab at 15 live
\* tabs creates no tab and returns the current index, and new_tab and
\* restore_last_closed_tab leave the tab list and the active index as they are.
C10_TabLimit ==
    \A w \in DOMAIN workspaces :
        /\ count(workspaces[w]) <= 15
        /\ Len(workspaces[w].web_views) <= 15
        /\ count(workspaces[w]) = 15 =>
            /\ \A url \in PageUrls :
                  add_tab(workspaces[w], url) =
                    [ws |-> workspaces[w],
                     index |-> workspaces[w].tab_widget.currentIndex]
            /\ SameTabsAndActive(workspaces[w], new_tab(workspaces[w]))
            /\ SameTabsAndActive(workspaces[w],
                                 restore_last_closed_tab(workspaces[w]))

\* restore_last_closed_tab was just called on a workspace that has 15 live
\* tabs and had a closed tab to restore: the 16 views are the 15 restored
\* ones and the one new_tab made after the close
C10_Witness ==
    /\ last_op.op = "restore_last_closed_tab"
    /\ count(workspaces[last_op.w]) = 15
    /\ Len(workspaces[last_op.w].views) = 16
    /\ workspaces[last_op.w].closed_tabs = <<>>
    /\ workspaces[last_op.w].views[16].url = CHATGPT_URL
    /\ workspaces[last_op.w].views[
          CHOOSE v \in 1..16 : workspaces[last_op.w].views[v].deleted].url
            # CHATGPT_URL


\* C12: with a closed tab on the list, restore_last_closed_tab takes exactly
\* the most recent entry off the list and reopens it: the workspace has one
\* tab more and the new tab loads the URL of that entry; with an empty list
\* restore_last_closed_tab changes nothing. No entry leaves the list without
\* a tab being opened for it.
C12_RestoreReopensWhatItTakes ==
    \A w \in DOMAIN workspaces :
        IF workspaces[w].closed_tabs = <<>>
        THEN restore_last_closed_tab(workspaces[w]) = workspaces[w]
        ELSE /\ restore_last_closed_tab(workspaces[w]).closed_tabs
                  = SubSeq(workspaces[w].closed_tabs, 1,
                           Len(workspaces[w].closed_tabs) - 1)
             /\ count(restore_last_closed_tab(workspaces[w]))
                  = count(workspaces[w]) + 1
             /\ Len(restore_last_closed_tab(workspaces[w]).views)
                  = Len(workspaces[w].views) + 1
             /\ restore_last_closed_tab(workspaces[w]).views[
                    Len(workspaces[w].views) + 1].url
                  = workspaces[w].closed_tabs[Len(workspaces[w].closed_tabs)].url

(***************************************************************************)
(* Claims about the recently-closed list                                   *)
(***************************************************************************)
\* the last n elements of s, all of s when it has fewer
LastN(s, n) ==
    IF Len(s) <= n THEN s ELSE SubSeq(s, Len(s) - n + 1, Len(s))

\* what close_tab has to remember of the tab at index: the URL its page
\* shows and the text of the tab
ClosedEntryOf(ws, index) ==
    [url |-> ws.views[ws.tab_widget.tabs[index + 1].view].url,
     title |-> ws.tab_widget.tabs[index + 1].text]

\* closing the tab at index appends its entry and keeps the 10 most recent
\* entries in closing order
ClosePushesAndEvictsOldest(ws, index) ==
    close_tab(ws, index).closed_tabs
        = LastN(Append(ws.closed_tabs, ClosedEntryOf(ws, index)), 10)

\* restore_last_closed_tab takes the most recent entry off the list and
\* leaves the older ones in their order
RestoreTakesMostRecent(ws) ==
    restore_last_closed_tab(ws).closed_tabs
        = SubSeq(ws.closed_tabs, 1, Len(ws.closed_tabs) - 1)

\* below the tab limit the tab restore_last_closed_tab opens is the last
\* tab of the bar, and its page loads the URL of the most recent entry
RestoreReopensMostRecent(ws) ==
    ~at_tab_limit(ws) =>
        /\ count(restore_last_closed_tab(ws)) = count(ws) + 1
        /\ restore_last_closed_tab(ws).views[
              restore_last_closed_tab(ws).tab_widget.tabs[count(ws) + 1].view].url
                = ws.closed_tabs[Len(ws.closed_tabs)].url

\* C11: a workspace's recently-closed list never holds more than 10 entries;
\* closing a tab appends its entry, and with 10 entries already there the
\* oldest goes and the 10 most recent stay in closing order;
\* restore_last_closed_tab takes the most recently closed remaining entry.
C11_ClosedTabsBoundedLifo ==
    \A w \in DOMAIN workspaces :
        /\ Len(workspaces[w].closed_tabs) <= 10
        /\ count(workspaces[w]) > 1 =>
              \A index \in 0..(count(workspaces[w]) - 1) :
                  ClosePushesAndEvictsOldest(workspaces[w], index)
        /\ workspaces[w].closed_tabs # <<>> =>
              /\ RestoreTakesMostRecent(workspaces[w])
              /\ RestoreReopensMostRecent(workspaces[w])

\* twelve tabs were closed one after the other and none was restored: the
\* list holds the third to the twelfth closed tab, oldest first
C11_Witness ==
    /\ last_op.op = "close_tab"
    /\ Len(workspaces[0].views) = 13
    /\ count(workspaces[0]) = 1
    /\ Len(workspaces[0].closed_tabs) = 10
    /\ \A k \in 1..10 : workspaces[0].closed_tabs[k].url = ConversationUrls[k + 2]

(***************************************************************************)
(* Claims about the tabs of the current workspace                          *)
(***************************************************************************)
\* the tracked active tab and the active tab of a snapshot are indices of
\* live tabs
ActiveTabInRange(ws) ==
    /\ 0 <= ws.workspace_data.active_tab
    /\ ws.workspace_data.active_tab < count(ws)
    /\ LET snapshot == get_session_data(ws)
       IN  /\ 0 <= snapshot.active_tab
           /\ snapshot.active_tab < Len(snapshot.tabs)
           /\ Len(snapshot.tabs) = Len(ws.web_views)

\* C13: in every workspace the tracked active tab and the active tab of a
\* snapshot are at least 0 and below the number of live tabs, and they stay
\* so when a tab is opened, when the tab at any index is closed, when a
\* closed tab is restored, and when any index is made current.
C13_ActiveTabInRange ==
    \A w \in DOMAIN workspaces :
        /\ ActiveTabInRange(workspaces[w])
        /\ ActiveTabInRange(new_tab(workspaces[w]))
        /\ ActiveTabInRange(restore_last_closed_tab(workspaces[w]))
        /\ \A index \in -1..count(workspaces[w]) :
              /\ ActiveTabInRange(close_tab(workspaces[w], index))
              /\ ActiveTabInRange(setCurrentIndex(workspaces[w], index))

\* the last tab of the bar was the current one when it was closed, and the
\* tab before it is the current one now
C13_Witness ==
    /\ last_op.op = "close_tab"
    /\ workspaces[last_op.w].views[Len(workspaces[last_op.w].views)].deleted
    /\ count(workspaces[last_op.w]) = Len(workspaces[last_op.w].views) - 1
    /\ workspaces[last_op.w].tab_widget.currentIndex
          = count(workspaces[last_op.w]) - 1
    /\ workspaces[last_op.w].workspace_data.active_tab
          = count(workspaces[last_op.w]) - 1
    /\ count(workspaces[last_op.w]) > 1

\* the tracked tab records and the tabs of the bar are the same
SameTabRecords(ws, after) ==
    /\ after.workspace_data = ws.workspace_data
    /\ after.tab_widget = ws.tab_widget

\* the tracked tab records and the tabs of the bar are the same except at
\* index
SameTabRecordsExceptAt(ws, after, index) ==
    /\ Len(after.workspace_data.tabs) = Len(ws.workspace_data.tabs)
    /\ \A j \in 1..Len(ws.workspace_data.tabs) :
          j # index + 1 => after.workspace_data.tabs[j] = ws.workspace_data.tabs[j]
    /\ after.workspace_data.active_tab = ws.workspace_data.active_tab
    /\ Len(after.tab_widget.tabs) = Len(ws.tab_widget.tabs)
    /\ \A j \in 1..Len(ws.tab_widget.tabs) :
          j # index + 1 => after.tab_widget.tabs[j] = ws.tab_widget.tabs[j]
    /\ after.tab_widget.currentIndex = ws.tab_widget.currentIndex

\* a title of the page of view reaches the record and the tab at the
\* position of view and nothing else, and nothing when no tab shows view
TitleRoutedByView(ws, view, title) ==
    IF indexOf(ws, view) < 0
    THEN SameTabRecords(ws, update_title_for_view(ws, view, title))
    ELSE /\ SameTabRecordsExceptAt(ws, update_title_for_view(ws, view, title),
                                   indexOf(ws, view))
         /\ update_title_for_view(ws, view, title).tab_widget.tabs[
                indexOf(ws, view) + 1]
              = [view |-> view, text |-> truncated_title(title)]
         /\ update_title_for_view(ws, view, title).workspace_data.tabs[
                indexOf(ws, view) + 1]
              = [ws.workspace_data.tabs[indexOf(ws, view) + 1]
                    EXCEPT !.title = truncated_title(title)]

\* a URL of the page of view reaches the record at the position of view and
\* nothing else, and nothing when no tab shows view
UrlRoutedByView(ws, view, url) ==
    IF indexOf(ws, view) < 0
    THEN SameTabRecords(ws, on_url_changed(ws, view, url))
    ELSE /\ SameTabRecordsExceptAt(ws, on_url_changed(ws, view, url),
                                   indexOf(ws, view))
         /\ on_url_changed(ws, view, url).tab_widget = ws.tab_widget
         /\ on_url_changed(ws, view, url).workspace_data.tabs[
                indexOf(ws, view) + 1]
              = [ws.workspace_data.tabs[indexOf(ws, view) + 1]
                    EXCEPT !.url = url]

\* C14: a title or URL event of a view, delivered in any state the opens and
\* closes of tabs lead to, changes the tab record at the position the view
\* has then and no other record; an event of a view whose tab was closed
\* changes no record.
C14_EventsRoutedByView ==
    \A w \in DOMAIN workspaces :
        \A view \in 1..Len(workspaces[w].views) :
            /\ \A title \in Titles :
                  TitleRoutedByView(workspaces[w], view, title)
            /\ \A url \in PageUrls :
                  UrlRoutedByView(workspaces[w], view, url)

\* the title of a page arrived after a tab to the left of its tab was
\* closed: the view is one position further left than when it was made, and
\* the tab and the record there carry the title, the others the first title
C14_Witness ==
    /\ last_op.op = "title_changed"
    /\ \E view \in 2..Len(workspaces[0].views) :
          /\ workspaces[0].views[view - 1].deleted
          /\ indexOf(workspaces[0], view) = view - 2
          /\ workspaces[0].tab_widget.tabs[view - 1].text = LongTitleTruncated
          /\ workspaces[0].workspace_data.tabs[view - 1].title = LongTitleTruncated
          /\ \A j \in 1..count(workspaces[0]) :
                j # view - 1 => workspaces[0].tab_widget.tabs[j].text = "ChatGPT"
(***************************************************************************)
(* Claims about the session store                                          *)
(***************************************************************************)
\* C19: after a save_sessions that returned True, as every save_sessions
\* before it did, whether by this SessionManager or an earlier one,
\* load_sessions returns the saved snapshot: the names, the tabs with URLs
\* and titles in order, the active tabs, the visibility of the notepads and
\* the notes.
C19_SaveLoadRoundTrip ==
    (last_save.ok /\ last_save.failed = 0) =>
        load_sessions(files) = last_save.workspaces

\* a second save_sessions of the snapshot just saved writes no file and
\* returns True, at whatever time and whatever the disk would do to a write
SecondSaveWritesNothing(r) ==
    /\ ~r.raised
    /\ r.files_written = 0
    /\ r.files = files

\* C20: when save_sessions returned True, calling it again on the same
\* SessionManager with the same snapshot writes neither the session file nor
\* a notepad file and returns True, at any later time.
C20_SecondSaveWritesNothing ==
    (last_save.ok /\ last_save.same_manager) =>
        \A io \in IOOutcomes, later \in {0, 1, 60} :
            SecondSaveWritesNothing(
                save_sessions(session_manager, files, last_save.workspaces,
                              clock + later, io))

\* the snapshot with two tabs and notes was saved twice in a row, a second
\* apart: the second call returned True and wrote nothing, and the session
\* file carries the time of the first
C20_Witness ==
    /\ last_save.ok
    /\ last_save.repeated
    /\ last_save.files_written = 0
    /\ last_save.workspaces[0] = TwoTabsTwoLines
    /\ files.session_file.content[<<"0">>].last_saved < clock

\* a note without a carriage return
RECURSIVE NoCarriageReturn(_)
NoCarriageReturn(text) ==
    \/ text = <<>>
    \/ Head(text) # "\r" /\ NoCarriageReturn(Tail(text))

\* the round trip restricted to snapshots whose notes hold no carriage return
RoundTripWithoutCarriageReturn ==
    (/\ last_save.ok
     /\ last_save.failed = 0
     /\ \A i \in DOMAIN last_save.workspaces :
            NoCarriageReturn(last_save.workspaces[i].notepad_content))
        => load_sessions(files) = last_save.workspaces

(***************************************************************************)
(* Claims about the memory manager                                         *)
(***************************************************************************)
\* the idle threshold, in seconds
ThresholdSeconds ==
    COMPRESSION_DELAY_MINUTES * 60

\* C15: in every reachable state, whatever the order of ticks and workspace
\* switches, the current workspace is not in compressed_workspaces, however
\* long ago it was last used.
C15_CurrentWorkspaceNotCompressed ==
    window.current_workspace \notin memory_manager.compressed_workspaces

\* a tick found the current workspace unused for more than the threshold,
\* and left it uncompressed while it compressed another workspace
C15_Witness ==
    /\ last_op.op = "tick"
    /\ window.current_workspace \in DOMAIN memory_manager.workspace_last_used
    /\ clock - memory_manager.workspace_last_used[window.current_workspace]
            > ThresholdSeconds
    /\ memory_manager.compressed_workspaces # {}
    /\ window.current_workspace \notin memory_manager.compressed_workspaces

\* every tab of the workspace shows the URL kept when it was compressed, and
\* none is on about:blank
EveryTabReloaded(ws) ==
    \A i \in 1..count(ws) :
        /\ ws.tab_widget.tabs[i].view \in DOMAIN ws.original_url
        /\ ws.views[ws.tab_widget.tabs[i].view].url
                = ws.original_url[ws.tab_widget.tabs[i].view]
        /\ ws.views[ws.tab_widget.tabs[i].view].url # ABOUT_BLANK

\* C16: switching to a compressed workspace runs restore_workspace exactly
\* once: every tab is reloaded with the URL kept when the workspace was
\* compressed, the workspace leaves compressed_workspaces, and no tab of the
\* workspace, now current, stays on about:blank.
C16_SwitchRestoresCompressed ==
    (last_op.op = "switch_workspace" /\ usage.was_compressed) =>
        /\ usage.restores = 1
        /\ last_op.w \notin memory_manager.compressed_workspaces
        /\ EveryTabReloaded(workspaces[last_op.w])

\* C17: a workspace is compressed by a tick only when it is not the current
\* workspace and the threshold has passed since it was last the current
\* workspace: a workspace left less than a threshold ago is not compressed,
\* however long it was the current workspace before.
C17_CompressedOnlyAfterIdleSinceLeft ==
    \A workspace_id \in memory_manager.compressed_workspaces :
        /\ workspace_id # window.current_workspace
        /\ usage.compressed_at[workspace_id] - usage.left_at[workspace_id]
                >= ThresholdSeconds

\* what the code keeps: a compressed workspace is not the current one and
\* was switched to more than a threshold before the tick that compressed it
CompressedOnlyAfterIdleSinceActivated ==
    \A workspace_id \in memory_manager.compressed_workspaces :
        /\ workspace_id # window.current_workspace
        /\ usage.compressed_at[workspace_id]
                - usage.activated_at[workspace_id] > ThresholdSeconds

\* C18: after every tick, every workspace that is not the current one and
\* was not made current within the threshold is compressed, each of the
\* NUM_WORKSPACES workspaces, those loaded at the start and never switched
\* to included.
C18_TickCompressesEveryIdleWorkspace ==
    last_op.op = "tick" =>
        \A workspace_id \in 0..(NUM_WORKSPACES - 1) :
            (/\ workspace_id # window.current_workspace
             /\ clock - usage.activated_at[workspace_id] > ThresholdSeconds)
                => workspace_id \in memory_manager.compressed_workspaces

\* what the code keeps: the same of the workspaces that were switched to
TickCompressesIdleWorkspacesSwitchedTo ==
    last_op.op = "tick" =>
        \A workspace_id \in DOMAIN memory_manager.workspace_last_used :
            (/\ workspace_id # window.current_workspace
             /\ clock - usage.activated_at[workspace_id] > ThresholdSeconds)
                => workspace_id \in memory_manager.compressed_workspaces

\* workspace ids beyond 0..NUM_WORKSPACES-1, below and above
OutOfRangeIds ==
    {-2, -1, NUM_WORKSPACES, NUM_WORKSPACES + 1}

\* switch_workspace(workspace_id) changes nothing: the current and the
\* displayed workspace, the memory manager, the widgets and the files
SwitchIsNoOp(workspace_id) ==
    \A io \in IOOutcomes :
        switch_workspace(App, workspace_id, clock, io) = App

\* C26: switch_workspace(id) of any id beyond 0..NUM_WORKSPACES-1, negative
\* or too large, changes nothing (the current workspace, the times and the
\* compressed set of the memory manager, the displayed workspace and the
\* files), and the current workspace is always one of 0..NUM_WORKSPACES-1.
C26_OutOfRangeSwitchIsNoOp ==
    /\ \A workspace_id \in OutOfRangeIds : SwitchIsNoOp(workspace_id)
    /\ window.current_workspace \in 0..(NUM_WORKSPACES - 1)

\* what the code keeps: ids from NUM_WORKSPACES on change nothing, and the
\* shortcuts keep the current workspace within 0..NUM_WORKSPACES-1
TooLargeSwitchIsNoOp ==
    /\ \A workspace_id \in {NUM_WORKSPACES, NUM_WORKSPACES + 1} :
            SwitchIsNoOp(workspace_id)
    /\ window.current_workspace \in 0..(NUM_WORKSPACES - 1)


\* tab i of workspace widget ws, compressed, is recorded under url: url is the
\* URL kept for its view when the compression began, and not about:blank
RecordedWithOriginalUrl(ws, i, url) ==
    /\ ws.tab_widget.tabs[i].view \in DOMAIN ws.original_url
    /\ url = ws.original_url[ws.tab_widget.tabs[i].view]
    /\ url # ABOUT_BLANK

\* the snapshot record data of the compressed workspace widget ws, and the
\* tab records ws tracks, hold the original URL of every tab
SnapshotKeepsOriginalUrls(ws, data) ==
    /\ Len(data.tabs) = count(ws)
    /\ Len(ws.workspace_data.tabs) = count(ws)
    /\ \A i \in 1..count(ws) :
        /\ RecordedWithOriginalUrl(ws, i, data.tabs[i].url)
        /\ RecordedWithOriginalUrl(ws, i, ws.workspace_data.tabs[i].url)

\* C29: every snapshot taken while a workspace is compressed, and that
\* workspace's tracked tab records, hold for each tab the URL the tab had
\* when compression began and never about:blank, so that an autosave between
\* compression and the next activation saves the original URLs.
C29_CompressedSnapshotKeepsUrls ==
    \A workspace_id \in memory_manager.compressed_workspaces
                            \cap DOMAIN window_snapshot(App) :
        SnapshotKeepsOriginalUrls(workspaces[workspace_id],
                                  window_snapshot(App)[workspace_id])

\* the snapshot record data of the compressed workspace widget ws, and the
\* tab records ws tracks, hold about:blank for every tab
SnapshotHoldsPlaceholder(ws, data) ==
    /\ Len(data.tabs) = count(ws)
    /\ Len(ws.workspace_data.tabs) = count(ws)
    /\ \A i \in 1..count(ws) :
        /\ data.tabs[i].url = ABOUT_BLANK
        /\ ws.workspace_data.tabs[i].url = ABOUT_BLANK

CompressedSnapshotHoldsPlaceholder ==
    \A workspace_id \in memory_manager.compressed_workspaces
                            \cap DOMAIN window_snapshot(App) :
        SnapshotHoldsPlaceholder(workspaces[workspace_id],
                                 window_snapshot(App)[workspace_id])
(***************************************************************************)
(* Claims about loading                                                    *)
(***************************************************************************)
\* the workspaces the session file has a record for
StoredIds(fs) ==
    IF fs.session_file.exists /\ fs.session_file.readable
    THEN {int_of(key) : key \in {k \in DOMAIN fs.session_file.content :
                                        IsIntText(k)}}
    ELSE {}

\* the session file holds records for a subset of the workspaces 0..3, or
\* is missing or unreadable
RecordsOfWorkspacesOnly(fs) ==
    (fs.session_file.exists /\ fs.session_file.readable) =>
        \A key \in DOMAIN fs.session_file.content :
            IsIntText(key) /\ int_of(key) \in 0..(NUM_WORKSPACES - 1)

\* a loaded map with every workspace 0..3, each with a tab and an active tab
\* among its tabs, and the default for every workspace the file lacks
CompleteWithDefaults(fs, loaded) ==
    /\ \A i \in 0..(NUM_WORKSPACES - 1) :
            /\ i \in DOMAIN loaded
            /\ Len(loaded[i].tabs) >= 1
            /\ loaded[i].active_tab \in 0..(Len(loaded[i].tabs) - 1)
            /\ i \notin StoredIds(fs) => loaded[i] = DefaultWorkspaceData(i)
    /\ DefaultWorkspaceData(2)
            = [name |-> "Workspace 3", tabs |-> <<DefaultTab>>,
               active_tab |-> 0, notepad_content |-> <<>>,
               notepad_visible |-> FALSE]

\* C21: whatever the session file (missing, unreadable, or with records for
\* a subset of the workspaces 0..3), load_sessions returns a map with every
\* workspace 0..3, each with at least one tab and an active tab among them,
\* and every workspace the file lacks is the default one: name
\* "Workspace {id+1}", one tab on the default URL, empty note, notepad hidden.
C21_LoadCompleteWithDefaults ==
    RecordsOfWorkspacesOnly(files) =>
        CompleteWithDefaults(files, load_sessions(files))

\* the application loaded a file that lacks workspace 2 alone, next to
\* notepad files: workspace 2 is the default one, workspace 0 is as stored
C21_Witness ==
    /\ last_op.op = "load_sessions"
    /\ StoredIds(files) = {0, 1, 3}
    /\ files.notepad_files[2].exists
    /\ workspaces[2].workspace_data.notepad_content = <<>>
    /\ window.notepads[2].content = <<>>
    /\ ~window.notepads[2].shown
    /\ workspaces[0].workspace_data.name = "Research"
    /\ window.notepads[0].content = <<"a", "\n", "b">>

\* a key of the session file whose record load_sessions cannot take: the key
\* names no workspace 0..3, or the record is malformed
Unparsable(fs, key) ==
    \/ ~IsIntText(key)
    \/ int_of(key) \notin 0..(NUM_WORKSPACES - 1)
    \/ RecordRaises(fs.session_file.content[key])

\* every record load_sessions can take is loaded as stored, and the
\* workspace of a malformed record is the default one
OthersAsStored(fs, loaded) ==
    \A key \in DOMAIN fs.session_file.content :
        IF Unparsable(fs, key)
        THEN (IsIntText(key) /\ int_of(key) \in 0..(NUM_WORKSPACES - 1))
                => loaded[int_of(key)] = DefaultWorkspaceData(int_of(key))
        ELSE loaded[int_of(key)]
                = LoadedWorkspaceData(fs, int_of(key),
                                      fs.session_file.content[key])

\* C22: when the record of one workspace cannot be read (a malformed tab
\* entry, a field of the wrong type, a key beyond 0..3) and the records of
\* the others are well-formed, load_sessions takes the default for that
\* workspace alone and returns the stored names, tabs, active tabs and
\* notepad visibility of all the others.
C22_FallbackForOneWorkspaceOnly ==
    (/\ files.session_file.exists
     /\ files.session_file.readable
     /\ Cardinality({key \in DOMAIN files.session_file.content :
                        Unparsable(files, key)}) = 1)
        => OthersAsStored(files, load_sessions(files))

\* what the code keeps: a file whose records are all well-formed is loaded
\* as stored
WellFormedLoadedAsStored ==
    (/\ files.session_file.exists
     /\ files.session_file.readable
     /\ \A key \in DOMAIN files.session_file.content :
            ~Unparsable(files, key))
        => OthersAsStored(files, load_sessions(files))

\* the tabs of the workspace widget are those of the stored workspace: as
\* many, on the stored URLs, in the stored order
TabsAsStored(ws, stored) ==
    /\ count(ws) = Len(stored.tabs)
    /\ \A j \in 1..count(ws) :
            /\ ~ws.views[ws.tab_widget.tabs[j].view].deleted
            /\ ws.views[ws.tab_widget.tabs[j].view].url = stored.tabs[j].url

\* C25: restoring a stored workspace with k tabs (1 <= k <= 15) and the
\* stored active tab a gives exactly k live tabs on the stored URLs in the
\* stored order, and the current tab is a, clamped to 0..k-1: the restore
\* does not overwrite the stored active tab before it applies it.
C25_RestoreTabsAndActiveTab ==
    last_op.op = "load_sessions" =>
        \A i \in DOMAIN workspaces :
            Len(load_sessions(files)[i].tabs) <= MaxTabsPerWorkspace =>
                /\ TabsAsStored(workspaces[i], load_sessions(files)[i])
                /\ workspaces[i].tab_widget.currentIndex
                        = load_sessions(files)[i].active_tab

\* what the code keeps: the tabs are as stored, and the first tab is the
\* current one
RestoreTabsFirstCurrent ==
    last_op.op = "load_sessions" =>
        \A i \in DOMAIN workspaces :
            /\ TabsAsStored(workspaces[i], load_sessions(files)[i])
            /\ workspaces[i].tab_widget.currentIndex = 0


\* the page workspace_stack displays in window win is that of the workspace
\* win takes for the current one
DisplayedIsCurrent(win) ==
    displayed_workspace(win) = win.current_workspace

\* after the start, and after a switch to any workspace from there, the
\* displayed workspace is the current one
DisplayedIsCurrentFromStart ==
    /\ DisplayedIsCurrent(window)
    /\ \A workspace_id \in 0..(NUM_WORKSPACES - 1) :
        DisplayedIsCurrent(
            switch_workspace(App, workspace_id, clock, NoFailure).window)

\* C30: in every state of the running application, also after loading a
\* session file in which some workspace ids are missing, the workspace shown
\* in the stacked view is the workspace whose id equals current_workspace,
\* the one the tab and panel commands are routed to and under whose id its
\* tabs are saved.
C30_DisplayedWorkspaceIsCurrent ==
    last_op.op = "load_sessions" => DisplayedIsCurrentFromStart

\* when the dictionary load_sessions returns holds the workspaces 0..3 in
\* ascending order, the displayed workspace is the current one
DisplayedIsCurrentForAscendingLoad ==
    (/\ last_op.op = "load_sessions"
     /\ window.workspace_stack = Ascending(0..(NUM_WORKSPACES - 1))) =>
        DisplayedIsCurrentFromStart
(***************************************************************************)
(* Claims about saving and closing                                         *)
(***************************************************************************)
\* the last step was MainWindow.save_sessions on the autosave timer, and it
\* called SessionManager.save_sessions
AutosaveCalledStore ==
    last_op.op = "autosave" /\ last_save.called

\* a save that failed leaves a dirty flag set
FailedSaveKeepsDirty ==
    (AutosaveCalledStore /\ ~last_save.ok) =>
        (window.session_dirty \/ window.notepad_dirty)

\* while a flag is dirty the autosave timer calls SessionManager.save_sessions
DirtyIsSavedAgain ==
    (window.session_dirty \/ window.notepad_dirty) =>
        \A io \in IOOutcomes :
            window_save_sessions(App, clock + 1, io)
                = window_saved(App, save_sessions(session_manager, files,
                                                  window_snapshot(App),
                                                  clock + 1, io))

\* the flags are clean after a save that returned True
SuccessfulSaveCleans ==
    (AutosaveCalledStore /\ last_save.ok) =>
        (~window.session_dirty /\ ~window.notepad_dirty)

\* what a save that returned True leaves on the disk is the state of the
\* window
SuccessfulSavePersists ==
    (AutosaveCalledStore /\ last_save.ok) =>
        load_sessions(files) = window_snapshot(App)

\* C23: a save that fails (a notepad file or the session file cannot be
\* written) raises nothing in MainWindow and leaves the dirty flags set, the
\* next autosave saves again, and only a save that returned True clears the
\* flags: the first save that succeeds persists every change made while
\* the writes failed.
C23_FailedSaveRetriedUntilPersisted ==
    /\ FailedSaveKeepsDirty
    /\ DirtyIsSavedAgain
    /\ SuccessfulSaveCleans
    /\ SuccessfulSavePersists

\* what the code keeps: a save that returned True persists the state of the
\* window when no earlier save failed in the dump of the session file
PersistsUnlessDumpFailed ==
    (/\ AutosaveCalledStore
     /\ last_save.ok
     /\ files.session_file.exists => files.session_file.readable)
        => load_sessions(files) = window_snapshot(App)

\* the steps of closeEvent in their order: save_sessions before anything is
\* released, and the views of a workspace deleted before its profile is
\* cleared
FlushThenReleaseInOrder ==
    /\ window.close_event # <<>>
    /\ window.close_event[1].step = "save_sessions"
    /\ \A k \in 2..Len(window.close_event) :
            window.close_event[k].step # "save_sessions"
    /\ \A i \in DOMAIN workspaces :
        \E k \in 2..(Len(window.close_event) - 1) :
            /\ window.close_event[k] = [step |-> "deleteLater", w |-> i]
            /\ window.close_event[k + 1] = [step |-> "clear_profile", w |-> i]

\* C24: when the window is closed, whatever the dirty flags and the state of
\* the notepads (a note edited since the last save that returned True
\* included), all workspaces are saved before any page view is released, the
\* page views of a workspace are released before its profile is cleared, and
\* when the writes succeed the session and the notes on the disk after the
\* close are those of the window at the close.
C24_CloseFlushesThenReleases ==
    last_op.op = "closeEvent" =>
        /\ FlushThenReleaseInOrder
        /\ last_op.io.fails = "nothing" =>
                load_sessions(files) = window_snapshot(App)

\* what the code keeps: the same when no notepad was edited since the last
\* save that returned True and no dump of the session file failed
CloseWithoutEditedNotes ==
    (/\ last_op.op = "closeEvent"
     /\ ~window.close_raised
     /\ files.session_file.exists => files.session_file.readable) =>
        /\ FlushThenReleaseInOrder
        /\ last_op.io.fails = "nothing" =>
                load_sessions(files) = window_snapshot(App)

====
